-------------------------- MODULE SectionCodecsProofs --------------------------
(***************************************************************************)
(* Proofs about SectionCodecs, for fields of any width, any words, any     *)
(* strings and vectors and foreign sections of any length.                 *)
(***************************************************************************)
EXTENDS SectionCodecs, KvShapeProofs

\* A section that an encoder made and a decoder takes: it holds v again.
ComesBack(encoded, decoding, v) ==
    /\ encoded.kind = "ok"
    /\ encoded.body \in Seq(Nat)
    /\ decoding = Decoded(v)

\* The cells of a section are those of the one encoding of what was read from
\* it, unread ones aside; behind them there may be more.
Canonical(canonical, meta, body, unread, more) ==
    /\ canonical.kind = "ok" /\ canonical.meta = meta
    /\ IF more THEN Len(canonical.body) <= Len(body) ELSE Len(canonical.body) = Len(body)
    /\ \A k \in 1 .. Len(canonical.body) : k \in unread \/ body[k] = canonical.body[k]

\* The outcomes of encoders and decoders are told apart by their kinds.
LEMMA Kinds ==
    /\ Malformed.kind = "Malformed" /\ Panics.kind = "panic" /\ None.kind = "none"
    /\ \A x : Decoded(x).kind = "ok" /\ Decoded(x).is = x
    /\ \A meta, body : LET s == Cells(meta, body)
                       IN s.kind = "ok" /\ s.meta = meta /\ s.body = body
    /\ \A kind : Invalid(kind).kind = kind
  BY DEF Malformed, Panics, None, Decoded, Cells, Invalid

\* Bounded sequences are sequences.
LEMMA BoundedIsSeq ==
    ASSUME NEW S, NEW n \in Nat, NEW s \in BoundedSeq(S, n)
    PROVE  s \in Seq(S) /\ Len(s) \in 0 .. n
  <1>1. PICK m \in 0 .. n : s \in [1 .. m -> S]
    BY DEF BoundedSeq, SeqOf
  <1>2. m \in Nat /\ s = [i \in 1 .. m |-> s[i]] /\ \A i \in 1 .. m : s[i] \in S
    BY <1>1
  <1>3. s \in Seq(S)
    BY <1>2, IsASeq
  <1>4. Len(s) = m
    BY <1>1, <1>2, <1>3
  <1>5. QED
    BY <1>1, <1>3, <1>4

\* Prefixes are the sequence they were cut off from, as far as they go.
LEMMA PrefixIs ==
    ASSUME NEW S, NEW s \in Seq(S), NEW p \in Prefixes(s)
    PROVE  /\ p \in Seq(S) /\ Len(p) <= Len(s)
           /\ \A i \in 1 .. Len(p) : p[i] = s[i]
  <1>1. PICK n \in 0 .. Len(s) : p = SubSeq(s, 1, n)
    BY DEF Prefixes
  <1>2. Len(p) = n
    BY <1>1, Prefix
  <1>3. \A i \in 1 .. n : p[i] = s[i]
    BY <1>1, Prefix
  <1>4. p \in Seq(S)
    <2>1. \A i \in 1 .. n : s[i] \in S
      BY <1>1, ElementOfSeq
    <2>2. 1 \in Int /\ n \in Int
      BY <1>1
    <2>3. QED
      BY <1>1, <2>1, <2>2, SubSeqProperties
  <1>5. QED
    BY <1>1, <1>2, <1>3, <1>4

------------------------------------------------------------------------------
(***************************************************************************)
(* Sections of fixed fields: the meta block and the shape.                 *)
(***************************************************************************)
MetaValues == [tenant_id : Nat, built_at : Nat, record_count : Nat, embedding_dim : Nat,
               centroid_count : Nat]

LEMMA MetaComesBack ==
    ASSUME NEW m \in MetaValues
    PROVE  ComesBack(EncodeMeta(m), DecodeMeta(EncodeMeta(m).body), m)
  <1> DEFINE buf == <<m.tenant_id, m.built_at, m.record_count, m.embedding_dim,
                      m.centroid_count, 0>>
  <1>1. /\ buf \in Seq(Nat) /\ Len(buf) = 6
        /\ buf[1] = m.tenant_id /\ buf[2] = m.built_at /\ buf[3] = m.record_count
        /\ buf[4] = m.embedding_dim /\ buf[5] = m.centroid_count
    BY DEF MetaValues
  <1>2. EncodeMeta(m).kind = "ok" /\ EncodeMeta(m).body = buf
    BY DEF EncodeMeta, Cells
  <1> HIDE DEF buf
  <1>3. DecodeMeta(buf) = Decoded([tenant_id |-> buf[1], built_at |-> buf[2],
           record_count |-> buf[3], embedding_dim |-> buf[4], centroid_count |-> buf[5]])
    BY <1>1 DEF DecodeMeta, MetaLen
  <1>4. m = [tenant_id |-> buf[1], built_at |-> buf[2], record_count |-> buf[3],
             embedding_dim |-> buf[4], centroid_count |-> buf[5]]
    BY <1>1 DEF MetaValues
  <1>5. QED
    BY <1>1, <1>2, <1>3, <1>4 DEF ComesBack

LEMMA MetaIsEncoding ==
    ASSUME NEW buf \in Seq(Nat), DecodeMeta(buf).kind = "ok"
    PROVE  Canonical(EncodeMeta(DecodeMeta(buf).is), <<>>, buf, {MetaLen}, FALSE)
  <1> DEFINE v == DecodeMeta(buf).is
             c == <<buf[1], buf[2], buf[3], buf[4], buf[5], 0>>
  <1>1. Len(buf) = 6
    BY DEF DecodeMeta, MetaLen, Malformed
  <1>2. /\ v.tenant_id = buf[1] /\ v.built_at = buf[2] /\ v.record_count = buf[3]
        /\ v.embedding_dim = buf[4] /\ v.centroid_count = buf[5]
    BY <1>1 DEF DecodeMeta, MetaLen, Decoded
  <1>3. EncodeMeta(v) = Cells(<<>>, c)
    BY <1>2 DEF EncodeMeta
  <1>4. EncodeMeta(v).kind = "ok" /\ EncodeMeta(v).meta = <<>> /\ EncodeMeta(v).body = c
    BY <1>3 DEF Cells
  <1>5. Len(c) = 6 /\ \A k \in 1 .. 6 : k = 6 \/ buf[k] = c[k]
    OBVIOUS
  <1> HIDE DEF v, c
  <1>6. Canonical(EncodeMeta(v), <<>>, buf, {MetaLen}, FALSE)
    BY <1>1, <1>4, <1>5 DEF Canonical, MetaLen
  <1>7. QED
    BY <1>6 DEF v

ShapeValues == [num_layers : Nat, n_kv_heads : Nat, head_dim : Nat, num_tokens : Nat,
                dtype : Dtypes, layout : Layouts,
                quant : {Absent} \cup {Some(q) : q \in [group_size : Nat, bits : Nat]}]

LEMMA ShapeComesBack ==
    ASSUME NEW s \in ShapeValues
    PROVE  ComesBack(EncodeShape(s), DecodeShape(EncodeShape(s).body), s)
  <1> DEFINE buf == EncodeShape(s).body
             six == <<s.num_layers, s.n_kv_heads, s.head_dim, s.num_tokens, s.dtype, s.layout>>
             read(quant) == [num_layers |-> buf[1], n_kv_heads |-> buf[2], head_dim |-> buf[3],
                             num_tokens |-> buf[4], dtype |-> buf[5], layout |-> buf[6],
                             quant |-> quant]
  <1>1. /\ s.num_layers \in Nat /\ s.n_kv_heads \in Nat /\ s.head_dim \in Nat
        /\ s.num_tokens \in Nat /\ s.dtype \in Dtypes /\ s.layout \in Layouts
        /\ s.quant = Absent \/ \E q \in [group_size : Nat, bits : Nat] : s.quant = Some(q)
    BY DEF ShapeValues
  <1>2. s.dtype \in Nat /\ s.layout \in Nat
    BY <1>1 DEF Dtypes, Layouts
  <1>3. EncodeShape(s).kind = "ok"
    BY DEF EncodeShape, Cells
  <1>4. s = [num_layers |-> s.num_layers, n_kv_heads |-> s.n_kv_heads, head_dim |-> s.head_dim,
             num_tokens |-> s.num_tokens, dtype |-> s.dtype, layout |-> s.layout,
             quant |-> s.quant]
    BY DEF ShapeValues
  <1>5. CASE s.quant = Absent
    <2>1. buf = six
      BY <1>5 DEF EncodeShape, Cells, Absent
    <2>2. /\ buf \in Seq(Nat) /\ Len(buf) = 6
          /\ buf[1] = s.num_layers /\ buf[2] = s.n_kv_heads /\ buf[3] = s.head_dim
          /\ buf[4] = s.num_tokens /\ buf[5] = s.dtype /\ buf[6] = s.layout
      BY <1>1, <1>2, <2>1
    <2> HIDE DEF buf
    <2>3. DecodeShape(buf) = Decoded(read(Absent))
      BY <1>1, <2>2 DEF DecodeShape
    <2>4. read(Absent) = s
      BY <1>4, <1>5, <2>2
    <2>5. QED
      BY <1>3, <2>2, <2>3, <2>4 DEF ComesBack, buf
  <1>6. ASSUME NEW q \in [group_size : Nat, bits : Nat], s.quant = Some(q)
        PROVE  ComesBack(EncodeShape(s), DecodeShape(EncodeShape(s).body), s)
    <2>1. buf = six \o <<q.group_size, q.bits>>
      BY <1>6 DEF EncodeShape, Cells, Some
    <2>2. q.group_size \in Nat /\ q.bits \in Nat /\ q = [group_size |-> q.group_size, bits |-> q.bits]
      OBVIOUS
    <2>3. /\ buf \in Seq(Nat) /\ Len(buf) = 8
          /\ buf[1] = s.num_layers /\ buf[2] = s.n_kv_heads /\ buf[3] = s.head_dim
          /\ buf[4] = s.num_tokens /\ buf[5] = s.dtype /\ buf[6] = s.layout
          /\ buf[7] = q.group_size /\ buf[8] = q.bits
      BY <1>1, <1>2, <2>1, <2>2
    <2> HIDE DEF buf
    <2>4. DecodeShape(buf) = Decoded(read(Some([group_size |-> buf[7], bits |-> buf[8]])))
      BY <1>1, <2>3 DEF DecodeShape
    <2>5. read(Some([group_size |-> buf[7], bits |-> buf[8]])) = s
      BY <1>4, <1>6, <2>2, <2>3
    <2>6. QED
      BY <1>3, <2>3, <2>4, <2>5 DEF ComesBack, buf
  <1>7. QED
    BY <1>1, <1>5, <1>6

LEMMA ShapeIsEncoding ==
    ASSUME NEW buf \in Seq(Nat), DecodeShape(buf).kind = "ok"
    PROVE  Canonical(EncodeShape(DecodeShape(buf).is), <<>>, buf, {}, FALSE)
  <1> DEFINE v == DecodeShape(buf).is
             six == <<buf[1], buf[2], buf[3], buf[4], buf[5], buf[6]>>
             c == six \o (IF Len(buf) = 8 THEN <<buf[7], buf[8]>> ELSE <<>>)
  <1>1. /\ Len(buf) \in {6, 8}
        /\ buf[5] \in Dtypes /\ buf[6] \in Layouts
    BY DEF DecodeShape, Malformed
  <1>2. v = [num_layers |-> buf[1], n_kv_heads |-> buf[2], head_dim |-> buf[3],
             num_tokens |-> buf[4], dtype |-> buf[5], layout |-> buf[6],
             quant |-> IF Len(buf) = 8
                         THEN Some([group_size |-> buf[7], bits |-> buf[8]]) ELSE Absent]
    BY <1>1 DEF DecodeShape, Decoded
  <1>3. EncodeShape(v) = Cells(<<>>, c)
    <2>1. CASE Len(buf) = 8
      <3>1. /\ v.num_layers = buf[1] /\ v.n_kv_heads = buf[2] /\ v.head_dim = buf[3]
            /\ v.num_tokens = buf[4] /\ v.dtype = buf[5] /\ v.layout = buf[6]
            /\ v.quant = Some([group_size |-> buf[7], bits |-> buf[8]])
        BY <1>2, <2>1
      <3> HIDE DEF v
      <3>2. v.quant.some = TRUE /\ v.quant.is.group_size = buf[7] /\ v.quant.is.bits = buf[8]
        BY <3>1 DEF Some
      <3>3. c = six \o <<buf[7], buf[8]>>
        BY <2>1
      <3>4. QED
        BY <3>1, <3>2, <3>3 DEF EncodeShape
    <2>2. CASE Len(buf) # 8
      BY <1>2, <2>2 DEF EncodeShape, Absent
    <2>3. QED
      BY <2>1, <2>2
  <1>4. EncodeShape(v).kind = "ok" /\ EncodeShape(v).meta = <<>> /\ EncodeShape(v).body = c
    BY <1>3, SMTT(60) DEF Cells
  <1>5. Len(c) = Len(buf) /\ \A k \in 1 .. Len(c) : buf[k] = c[k]
    <2>1. CASE Len(buf) = 8
      BY <2>1
    <2>2. CASE Len(buf) = 6
      BY <2>2
    <2>3. QED
      BY <1>1, <2>1, <2>2
  <1> HIDE DEF v, c
  <1>6. Canonical(EncodeShape(v), <<>>, buf, {}, FALSE)
    BY <1>4, <1>5 DEF Canonical
  <1>7. QED
    BY <1>6 DEF v

------------------------------------------------------------------------------
(***************************************************************************)
(* The identity.                                                           *)
(***************************************************************************)
Text == {s \in Seq(0 .. 2) : Utf8(s)}

LEMMA TextIsCells ==
    ASSUME NEW s \in Text
    PROVE  s \in Seq(Nat) /\ Utf8(s) /\ Len(s) \in Nat
  <1>1. s \in Seq(0 .. 2) /\ Utf8(s) /\ Len(s) \in Nat /\ 0 .. 2 \subseteq Nat
    BY DEF Text
  <1>2. s \in Seq(Nat)
    BY <1>1, SeqMonotonic
  <1>3. QED
    BY <1>1, <1>2

Identities == [model_fp : Nat, adapter_id : {Absent} \cup {Some(x) : x \in Nat},
               prefix_hash : Nat, created_at : Nat, tokenizer_version : Nat, model_name : Text]

\* The cells in front of the name, as they are put together and one by one.
Pieces(a, b, c, d, e, f, g) == <<a>> \o <<b, c>> \o <<d, e, f, g>>
Seven(a, b, c, d, e, f, g) == <<a, b, c, d, e, f, g>>

LEMMA IdentityHead ==
    ASSUME NEW a, NEW b, NEW c, NEW d, NEW e, NEW f, NEW g
    PROVE  Pieces(a, b, c, d, e, f, g) = Seven(a, b, c, d, e, f, g)
  <1> DEFINE S == {a, b, c, d, e, f, g}
             s == <<a>>
             t == <<b, c>>
             r == <<d, e, f, g>>
             u == s \o t
             w == u \o r
             z == <<a, b, c, d, e, f, g>>
  <1>1. s \in Seq(S) /\ Len(s) = 1 /\ s[1] = a
    OBVIOUS
  <1>2. t \in Seq(S) /\ Len(t) = 2 /\ t[1] = b /\ t[2] = c
    OBVIOUS
  <1>3. r \in Seq(S) /\ Len(r) = 4 /\ r[1] = d /\ r[2] = e /\ r[3] = f /\ r[4] = g
    OBVIOUS
  <1>4. /\ z \in Seq(S) /\ Len(z) = 7
        /\ z[1] = a /\ z[2] = b /\ z[3] = c /\ z[4] = d /\ z[5] = e /\ z[6] = f /\ z[7] = g
    OBVIOUS
  <1> HIDE DEF S, s, t, r, z
  <1>5. u \in Seq(S) /\ Behind(u, s, 1, t)
    BY <1>1, <1>2, JoinedAt
  <1> HIDE DEF u
  <1>6. Len(u) = 3 /\ u[1] = a /\ u[2] = b /\ u[3] = c
    <2>1. u[1] = s[1] /\ u[1 + 1] = t[1] /\ u[1 + 2] = t[2] /\ Len(u) = 1 + Len(t)
      BY <1>2, <1>5 DEF Behind
    <2>2. QED
      BY <1>1, <1>2, <2>1
  <1>7. w \in Seq(S) /\ Behind(w, u, 3, r)
    BY <1>3, <1>5, <1>6, JoinedAt
  <1> HIDE DEF w
  <1>8. /\ w[1] = u[1] /\ w[2] = u[2] /\ w[3] = u[3] /\ Len(w) = 3 + Len(r)
        /\ w[3 + 1] = r[1] /\ w[3 + 2] = r[2] /\ w[3 + 3] = r[3] /\ w[3 + 4] = r[4]
    BY <1>3, <1>7 DEF Behind
  <1>9. Len(w) = Len(z) /\ \A p \in 1 .. Len(w) : w[p] = z[p]
    BY <1>3, <1>4, <1>6, <1>8
  <1>10. w = z
    BY <1>4, <1>7, <1>9, SeqEqual
  <1>11. QED
    BY <1>10 DEF Pieces, Seven, w, u, s, t, r, z

LEMMA IdentityComesBack ==
    ASSUME NEW id \in Identities, Len(id.model_name) < CellValues
    PROVE  ComesBack(EncodeIdentity(id), DecodeIdentity(EncodeIdentity(id).body), id)
  <1> DEFINE flag == IF id.adapter_id.some THEN 1 ELSE 0
             x == IF id.adapter_id.some THEN id.adapter_id.is ELSE ZeroId
             name == id.model_name
             n == Len(name)
             seven == <<id.model_fp, flag, x, id.prefix_hash, id.created_at, id.tokenizer_version, n>>
             buf == seven \o name
             named(s) == [model_fp |-> buf[1],
                          adapter_id |-> IF buf[2] = 1 THEN Some(buf[3]) ELSE Absent,
                          prefix_hash |-> buf[4], created_at |-> buf[5],
                          tokenizer_version |-> buf[6], model_name |-> s]
  <1>1. /\ id.model_fp \in Nat /\ id.prefix_hash \in Nat /\ id.created_at \in Nat
        /\ id.tokenizer_version \in Nat /\ name \in Text
        /\ id.adapter_id = Absent \/ \E y \in Nat : id.adapter_id = Some(y)
    BY DEF Identities
  <1>2. flag \in {0, 1} /\ x \in Nat /\ id.adapter_id = IF flag = 1 THEN Some(x) ELSE Absent
    <2>1. CASE id.adapter_id = Absent
      <3>1. id.adapter_id.some = FALSE
        BY <2>1 DEF Absent
      <3>2. QED
        BY <2>1, <3>1 DEF ZeroId
    <2>2. ASSUME NEW y \in Nat, id.adapter_id = Some(y)
          PROVE  flag = 1 /\ x = y
      BY <2>2 DEF Some
    <2>3. QED
      BY <1>1, <2>1, <2>2
  <1>3. EncodeIdentity(id) = Cells(<<>>, buf)
    <2>1. ~(Len(name) >= CellValues)
      <3>1. Len(name) \in Nat
        BY <1>1, TextIsCells
      <3>2. QED
        BY <3>1, CellsAreFields
    <2> DEFINE adapter == IF id.adapter_id.some THEN <<1, id.adapter_id.is>> ELSE <<0, ZeroId>>
               rest == <<id.prefix_hash, id.created_at, id.tokenizer_version, n>>
    <2>2. EncodeIdentity(id) = Cells(<<>>, <<id.model_fp>> \o adapter \o rest \o name)
      BY <2>1 DEF EncodeIdentity
    <2>3. adapter = <<flag, x>>
      OBVIOUS
    <2> HIDE DEF adapter, flag, x, n, name
    <2>4. <<id.model_fp>> \o <<flag, x>> \o rest = seven
      <3>1. Pieces(id.model_fp, flag, x, id.prefix_hash, id.created_at, id.tokenizer_version, n)
              = Seven(id.model_fp, flag, x, id.prefix_hash, id.created_at, id.tokenizer_version, n)
        BY IdentityHead
      <3>2. QED
        BY <3>1, Zenon DEF Pieces, Seven
    <2> HIDE DEF rest, seven
    <2>5. QED
      BY <2>2, <2>3, <2>4
  <1>4. id = [model_fp |-> id.model_fp, adapter_id |-> id.adapter_id,
              prefix_hash |-> id.prefix_hash, created_at |-> id.created_at,
              tokenizer_version |-> id.tokenizer_version, model_name |-> name]
    BY DEF Identities
  <1>5. name \in Seq(Nat) /\ Utf8(name) /\ n \in Nat
    BY <1>1, TextIsCells
  <1> HIDE DEF flag, x, name, n
  <1>6. /\ seven \in Seq(Nat) /\ Len(seven) = 7
        /\ seven[1] = id.model_fp /\ seven[2] = flag /\ seven[3] = x
        /\ seven[4] = id.prefix_hash /\ seven[5] = id.created_at
        /\ seven[6] = id.tokenizer_version /\ seven[7] = n
    BY <1>1, <1>2, <1>5
  <1>16. buf = seven \o name /\ name \in Seq(Nat) /\ seven \in Seq(Nat) /\ Len(seven) = 7
    BY <1>5, <1>6
  <1> HIDE DEF seven, buf
  <1>17. buf \in Seq(Nat) /\ Behind(buf, seven, 7, name)
    BY <1>16, JoinedAt
  <1>7. buf \in Seq(Nat) /\ Len(buf) = 7 + n
    BY <1>17 DEF Behind, n
  <1>8. \A p \in 1 .. 7 : buf[p] = seven[p]
    BY <1>17 DEF Behind
  <1>9. \A p \in 1 .. n : buf[7 + p] = name[p]
    BY <1>17 DEF Behind, n
  <1>10. SubSeq(buf, 7 + 1, 7 + n) = name
    BY <1>5, <1>7, <1>9, PartOf DEF n
  <1>11. buf[7] = n
    BY <1>6, <1>8
  <1>12. DecodeIdentity(buf) = Decoded(named(name))
    <2>1. SubSeq(buf, Fixed + 1, Fixed + buf[Fixed]) = name
      BY <1>10, <1>11 DEF Fixed
    <2>2. buf[2] \in {0, 1}
      BY <1>2, <1>6, <1>8
    <2>3. ~(Len(buf) < Fixed) /\ ~(Len(buf) < Fixed + buf[Fixed])
      BY <1>5, <1>7, <1>11 DEF Fixed
    <2>4. QED
      BY <1>5, <2>1, <2>2, <2>3 DEF DecodeIdentity
  <1>13. named(name) = id
    BY <1>2, <1>4, <1>6, <1>8
  <1>14. EncodeIdentity(id).kind = "ok" /\ EncodeIdentity(id).body = buf
    BY <1>3 DEF Cells
  <1>15. QED
    BY <1>7, <1>12, <1>13, <1>14 DEF ComesBack

LEMMA IdentityIsEncoding ==
    ASSUME NEW buf \in Seq(Nat), Len(buf) >= Fixed => buf[Fixed] < CellValues,
           DecodeIdentity(buf).kind = "ok"
    PROVE  LET v == DecodeIdentity(buf).is
           IN Canonical(EncodeIdentity(v), <<>>, buf,
                        IF v.adapter_id.some THEN {} ELSE {3}, TRUE)
  <1> DEFINE v == DecodeIdentity(buf).is
             n == buf[7]
             name == SubSeq(buf, 7 + 1, 7 + n)
             x == IF buf[2] = 1 THEN buf[3] ELSE ZeroId
             seven == <<buf[1], buf[2], x, buf[4], buf[5], buf[6], n>>
             c == seven \o name
  <1>1. /\ Len(buf) \in Nat /\ Len(buf) >= 7 /\ buf[2] \in {0, 1} /\ Len(buf) >= 7 + n /\ n \in Nat
    <2>1. ~(Len(buf) < 7) /\ buf[2] \in {0, 1} /\ ~(Len(buf) < 7 + n)
      BY DEF DecodeIdentity, Malformed, Fixed
    <2>2. Len(buf) \in Nat /\ Len(buf) >= 7
      BY <2>1
    <2>3. n \in Nat
      BY <2>2, ElementOfSeq
    <2>4. QED
      BY <2>1, <2>2, <2>3
  <1>2. n < CellValues
    BY <1>1 DEF Fixed
  <1>3. v = [model_fp |-> buf[1], adapter_id |-> IF buf[2] = 1 THEN Some(buf[3]) ELSE Absent,
             prefix_hash |-> buf[4], created_at |-> buf[5],
             tokenizer_version |-> buf[6], model_name |-> name]
    BY <1>1 DEF DecodeIdentity, Malformed, Decoded, Fixed
  <1> HIDE DEF v, n, name
  <1>4. /\ v.model_fp = buf[1] /\ v.prefix_hash = buf[4] /\ v.created_at = buf[5]
        /\ v.tokenizer_version = buf[6] /\ v.model_name = name
        /\ v.adapter_id = IF buf[2] = 1 THEN Some(buf[3]) ELSE Absent
    BY <1>3
  <1>5. \A i \in 1 .. 7 : buf[i] \in Nat
    BY <1>1, ElementOfSeq
  <1>6. name \in Seq(Nat)
    BY <1>1, Part DEF name
  <1>7. Len(name) = n
    BY <1>1, Part DEF name
  <1>8. \A m \in 1 .. n : name[m] = buf[7 + m]
    BY <1>1, Part DEF name
  <1>9. ~(Len(name) >= CellValues)
    BY <1>1, <1>2, <1>7, CellsAreFields
  <1>10. /\ EncodeIdentity(v) = Cells(<<>>, c)
         /\ v.adapter_id.some = (buf[2] = 1)
    <2>1. CASE buf[2] = 1
      <3>1. v.adapter_id.some = TRUE /\ v.adapter_id.is = buf[3] /\ x = buf[3]
        BY <1>4, <2>1 DEF Some
      <3>2. EncodeIdentity(v) = Cells(<<>>, <<buf[1]>> \o <<1, buf[3]>>
                                  \o <<buf[4], buf[5], buf[6], n>> \o name)
        BY <1>4, <1>7, <1>9, <3>1 DEF EncodeIdentity
      <3>3. <<buf[1]>> \o <<1, buf[3]>> \o <<buf[4], buf[5], buf[6], n>> = seven
        <4>1. x = buf[3]
          BY <2>1
        <4> HIDE DEF x
        <4>2. Pieces(buf[1], buf[2], buf[3], buf[4], buf[5], buf[6], n)
                = Seven(buf[1], buf[2], buf[3], buf[4], buf[5], buf[6], n)
          BY IdentityHead
        <4>3. QED
          BY <2>1, <4>1, <4>2, Zenon DEF Pieces, Seven
      <3> HIDE DEF seven
      <3>4. QED
        BY <2>1, <3>1, <3>2, <3>3
    <2>2. CASE buf[2] = 0
      <3>1. v.adapter_id.some = FALSE /\ x = ZeroId
        BY <1>4, <2>2 DEF Absent
      <3>2. EncodeIdentity(v) = Cells(<<>>, <<buf[1]>> \o <<0, ZeroId>>
                                  \o <<buf[4], buf[5], buf[6], n>> \o name)
        BY <1>4, <1>7, <1>9, <3>1 DEF EncodeIdentity
      <3>3. <<buf[1]>> \o <<0, ZeroId>> \o <<buf[4], buf[5], buf[6], n>> = seven
        <4>1. x = ZeroId
          BY <2>2
        <4> HIDE DEF x
        <4>2. Pieces(buf[1], buf[2], ZeroId, buf[4], buf[5], buf[6], n)
                = Seven(buf[1], buf[2], ZeroId, buf[4], buf[5], buf[6], n)
          BY IdentityHead
        <4>3. QED
          BY <2>2, <4>1, <4>2, Zenon DEF Pieces, Seven
      <3> HIDE DEF seven
      <3>4. EncodeIdentity(v) = Cells(<<>>, c)
        BY <3>2, <3>3
      <3> HIDE DEF c
      <3>5. (buf[2] = 1) = FALSE
        BY <2>2
      <3>6. QED
        BY <3>1, <3>4, <3>5, Zenon
    <2>3. QED
      BY <1>1, <2>1, <2>2
  <1>11. /\ seven \in Seq(Nat) /\ Len(seven) = 7
         /\ \A p \in 1 .. 7 : p = 3 \/ seven[p] = buf[p]
         /\ buf[2] = 1 => seven[3] = buf[3]
    <2>1. x \in Nat /\ (buf[2] = 1 => x = buf[3])
      BY <1>5 DEF ZeroId
    <2>2. /\ buf[1] \in Nat /\ buf[2] \in Nat /\ buf[4] \in Nat /\ buf[5] \in Nat
          /\ buf[6] \in Nat /\ n \in Nat /\ n = buf[7]
      BY <1>1, <1>5 DEF n
    <2> HIDE DEF x
    <2>3. seven \in Seq(Nat) /\ Len(seven) = 7
      BY <2>1, <2>2
    <2>4. /\ seven[1] = buf[1] /\ seven[2] = buf[2] /\ seven[3] = x /\ seven[4] = buf[4]
          /\ seven[5] = buf[5] /\ seven[6] = buf[6] /\ seven[7] = n
      OBVIOUS
    <2> HIDE DEF seven
    <2>5. ASSUME NEW p \in 1 .. 7 PROVE p = 3 \/ seven[p] = buf[p]
      <3>1. p = 1 \/ p = 2 \/ p = 3 \/ p = 4 \/ p = 5 \/ p = 6 \/ p = 7
        OBVIOUS
      <3>2. QED
        BY <2>2, <2>4, <3>1, Zenon
    <2>6. QED
      BY <2>1, <2>3, <2>4, <2>5
  <1>15. EncodeIdentity(v).kind = "ok" /\ EncodeIdentity(v).meta = <<>> /\ EncodeIdentity(v).body = c
    <2> HIDE DEF seven, c
    <2>1. QED
      BY <1>10 DEF Cells
  <1>19. c = seven \o name /\ seven \in Seq(Nat) /\ Len(seven) = 7
    BY <1>11
  <1> HIDE DEF seven, c
  <1>20. Behind(c, seven, 7, name)
    BY <1>6, <1>19, JoinedAt
  <1>12. Len(c) = 7 + n
    BY <1>7, <1>20 DEF Behind
  <1>13. \A p \in 1 .. 7 : c[p] = seven[p]
    BY <1>20 DEF Behind
  <1>14. \A p \in 1 .. n : c[7 + p] = name[p]
    BY <1>7, <1>20 DEF Behind
  <1>16. ASSUME NEW k \in 1 .. 7 + n
         PROVE  k \in (IF v.adapter_id.some THEN {} ELSE {3}) \/ buf[k] = c[k]
    <2>1. CASE k <= 7
      <3>1. k \in 1 .. 7 /\ c[k] = seven[k]
        BY <1>13, <2>1
      <3>2. QED
        BY <1>10, <1>11, <3>1
    <2>2. CASE ~(k <= 7)
      <3>1. k - 7 \in 1 .. n /\ 7 + (k - 7) = k
        BY <1>1, <2>2
      <3>2. QED
        BY <1>8, <1>14, <3>1
    <2>3. QED
      BY <2>1, <2>2
  <1>17. Canonical(EncodeIdentity(v), <<>>, buf, IF v.adapter_id.some THEN {} ELSE {3}, TRUE)
    BY <1>1, <1>12, <1>15, <1>16 DEF Canonical
  <1>18. QED
    BY <1>17 DEF v

------------------------------------------------------------------------------
(***************************************************************************)
(* The header and its table.                                               *)
(***************************************************************************)
TableEntries == [type_id : Nat, flags : Nat, offset : Nat, length : Nat, checksum : Nat]
Headers == [format : FormatIds, version : Nat, flags : Nat, created_at : Nat, body_len : Nat,
            sections : Seq(TableEntries)]

\* What EncodeHeader appends to its nine fields.
Rest(sections) == [k \in 1 .. Len(sections) |-> EncodeEntry(sections[k])]

\* The table: six cells for each section, each at its place.
LEMMA TableCells ==
    ASSUME NEW sections \in Seq(TableEntries)
    PROVE  /\ FlattenSeq(Rest(sections)) \in Seq(Nat)
           /\ Len(FlattenSeq(Rest(sections))) = Len(sections) * 6
           /\ \A k \in 1 .. Len(sections) : \A m \in 1 .. 6 :
                 FlattenSeq(Rest(sections))[(k - 1) * 6 + m] = EncodeEntry(sections[k])[m]
  <1> DEFINE n == Len(sections)
             parts == Rest(sections)
             flat == FlattenSeq(parts)
  <1>1. n \in Nat /\ \A k \in 1 .. n : sections[k] \in TableEntries
    BY ElementOfSeq
  <1>2. ASSUME NEW e \in TableEntries
        PROVE  EncodeEntry(e) \in Seq(Nat) /\ Len(EncodeEntry(e)) = 6
    BY DEF EncodeEntry, TableEntries
  <1>3. parts = [k \in 1 .. n |-> EncodeEntry(sections[k])]
    BY DEF Rest
  <1> HIDE DEF n, parts
  <1>4. \A k \in 1 .. n : parts[k] = EncodeEntry(sections[k])
    BY <1>3
  <1>5. \A k \in 1 .. n : parts[k] \in Seq(Nat)
    BY <1>1, <1>2, <1>4
  <1>6. parts \in Seq(Seq(Nat)) /\ Len(parts) = n
    <2>1. parts = [k \in 1 .. n |-> parts[k]]
      BY <1>3
    <2> DEFINE T == Seq(Nat)
    <2>2. \A k \in 1 .. n : parts[k] \in T
      BY <1>5
    <2> HIDE DEF T
    <2>3. parts \in Seq(T)
      BY <1>1, <2>1, <2>2, IsASeq
    <2>4. Len(parts) = n
      BY <1>1, <2>1, <2>3
    <2>5. QED
      BY <2>3, <2>4 DEF T
  <1>7. \A k \in 1 .. Len(parts) : Len(parts[k]) = 6
    <2>1. Len(parts) = n
      BY <1>6
    <2> SUFFICES ASSUME NEW k \in 1 .. n PROVE Len(parts[k]) = 6
      BY <2>1
    <2>2. sections[k] \in TableEntries /\ parts[k] = EncodeEntry(sections[k])
      BY <1>1, <1>4
    <2>3. QED
      BY <1>2, <2>2
  <1>8. 6 \in Nat
    OBVIOUS
  <1>9. flat \in Seq(Nat)
    BY <1>6, <1>7, <1>8, Rows
  <1>10. Len(flat) = Len(parts) * 6
    BY <1>6, <1>7, <1>8, Rows
  <1>11. \A k \in 1 .. Len(parts) : \A m \in 1 .. 6 : flat[(k - 1) * 6 + m] = parts[k][m]
    BY <1>6, <1>7, <1>8, Rows, ZenonT(60)
  <1> HIDE DEF flat
  <1>12. \A k \in 1 .. n : \A m \in 1 .. 6 : flat[(k - 1) * 6 + m] = EncodeEntry(sections[k])[m]
    BY <1>4, <1>6, <1>11, ZenonT(60)
  <1>13. QED
    BY <1>6, <1>9, <1>10, <1>12 DEF n, flat, parts

Nine(h, n) == <<Magic, h.format, h.version, h.flags, h.created_at, h.body_len, n, HeaderLen, 0>>

\* The cells of an encoded header.
LEMMA HeaderCells ==
    ASSUME NEW h \in Headers
    PROVE  /\ EncodeHeader(h).kind = "ok" /\ EncodeHeader(h).meta = <<>>
           /\ EncodeHeader(h).body \in Seq(Nat)
           /\ Behind(EncodeHeader(h).body, Nine(h, Len(h.sections)), 9, FlattenSeq(Rest(h.sections)))
  <1> DEFINE nine == Nine(h, Len(h.sections))
             flat == FlattenSeq(Rest(h.sections))
  <1>1. h.sections \in Seq(TableEntries) /\ Len(h.sections) \in Nat
    BY DEF Headers
  <1>2. flat \in Seq(Nat)
    BY <1>1, TableCells
  <1>3. nine \in Seq(Nat) /\ Len(nine) = 9
    <2>1. /\ h.format \in Nat /\ h.version \in Nat /\ h.flags \in Nat /\ h.created_at \in Nat
          /\ h.body_len \in Nat
      BY DEF Headers, FormatIds
    <2>2. QED
      BY <1>1, <2>1 DEF Nine, Magic, HeaderLen
  <1>4. EncodeHeader(h) = Cells(<<>>, nine \o flat)
    BY DEF EncodeHeader, Nine, Rest
  <1> HIDE DEF nine, flat
  <1>5. nine \o flat \in Seq(Nat) /\ Behind(nine \o flat, nine, 9, flat)
    BY <1>2, <1>3, JoinedAt
  <1> DEFINE buf == nine \o flat
  <1>6. EncodeHeader(h).kind = "ok" /\ EncodeHeader(h).meta = <<>> /\ EncodeHeader(h).body = buf
    BY <1>4 DEF Cells
  <1>7. buf \in Seq(Nat) /\ Behind(buf, nine, 9, flat)
    BY <1>5
  <1> HIDE DEF buf
  <1>8. QED
    BY <1>6, <1>7 DEF nine, flat

LEMMA HeaderComesBack ==
    ASSUME NEW h \in Headers
    PROVE  ComesBack(EncodeHeader(h), DecodeHeader(EncodeHeader(h).body), h)
  <1> DEFINE buf == EncodeHeader(h).body
             n == Len(h.sections)
             nine == Nine(h, n)
             flat == FlattenSeq(Rest(h.sections))
             at(k) == EntryAt(buf, 9 + (k - 1) * 6)
  <1>1. /\ h.sections \in Seq(TableEntries) /\ n \in Nat /\ h.format \in FormatIds
        /\ h.sections = [k \in 1 .. n |-> h.sections[k]]
        /\ \A k \in 1 .. n : h.sections[k] \in TableEntries
    <2>1. h.sections \in Seq(TableEntries) /\ h.format \in FormatIds
      BY DEF Headers
    <2>2. \A k \in 1 .. n : h.sections[k] \in TableEntries
      BY <2>1, ElementOfSeq
    <2>3. QED
      BY <2>1, <2>2
  <1>2. EncodeHeader(h).kind = "ok" /\ buf \in Seq(Nat) /\ Behind(buf, nine, 9, flat)
    BY HeaderCells
  <1>3. /\ nine[1] = Magic /\ nine[2] = h.format /\ nine[3] = h.version /\ nine[4] = h.flags
        /\ nine[5] = h.created_at /\ nine[6] = h.body_len /\ nine[7] = n /\ nine[8] = HeaderLen
    BY DEF Nine
  <1>4. Len(flat) = n * 6
    BY <1>1, TableCells
  <1>5. \A k \in 1 .. n : \A m \in 1 .. 6 : flat[(k - 1) * 6 + m] = EncodeEntry(h.sections[k])[m]
    BY <1>1, TableCells
  <1> HIDE DEF buf, n, nine, flat
  <1>6. /\ Len(buf) = 9 + n * 6
        /\ \A p \in 1 .. 9 : buf[p] = nine[p]
        /\ \A p \in 1 .. n * 6 : buf[9 + p] = flat[p]
    BY <1>2, <1>4 DEF Behind
  <1>7. ASSUME NEW k \in 1 .. n PROVE at(k) = h.sections[k]
    <2> DEFINE e == h.sections[k]
               off == 9 + (k - 1) * 6
    <2>1. ASSUME NEW m \in 1 .. 6 PROVE buf[off + m] = EncodeEntry(e)[m]
      <3>1. (k - 1) * 6 + m \in 1 .. n * 6 /\ 9 + ((k - 1) * 6 + m) = off + m
        BY <1>1
      <3>2. QED
        BY <1>5, <1>6, <3>1
    <2>2. e \in TableEntries
      BY <1>1
    <2> HIDE DEF e, off
    <2>3. /\ EncodeEntry(e)[1] = e.type_id /\ EncodeEntry(e)[2] = e.flags
          /\ EncodeEntry(e)[3] = e.offset /\ EncodeEntry(e)[4] = e.length
          /\ EncodeEntry(e)[5] = e.checksum
      BY DEF EncodeEntry
    <2>4. EntryAt(buf, off) = [type_id |-> e.type_id, flags |-> e.flags, offset |-> e.offset,
                               length |-> e.length, checksum |-> e.checksum]
      <3>1. /\ buf[off + 1] = e.type_id /\ buf[off + 2] = e.flags /\ buf[off + 3] = e.offset
            /\ buf[off + 4] = e.length /\ buf[off + 5] = e.checksum
        BY <2>1, <2>3
      <3>2. QED
        BY <3>1 DEF EntryAt
    <2>5. EntryAt(buf, off) = e
      BY <2>2, <2>4 DEF TableEntries
    <2>6. QED
      BY <2>5 DEF e, off
  <1>8. DecodeHeader(buf) =
          Decoded([format |-> h.format, version |-> h.version, flags |-> h.flags,
                   created_at |-> h.created_at, body_len |-> h.body_len,
                   sections |-> [k \in 1 .. n |-> at(k)]])
    <2>1. /\ buf[1] = Magic /\ buf[2] = h.format /\ buf[3] = h.version /\ buf[4] = h.flags
          /\ buf[5] = h.created_at /\ buf[6] = h.body_len /\ buf[7] = n /\ buf[8] = HeaderLen
      BY <1>3, <1>6
    <2>2. ~(Len(buf) < HeaderLen) /\ ~(Len(buf) < HeaderLen + n * EntryLen)
      BY <1>1, <1>6 DEF HeaderLen, EntryLen
    <2>3. QED
      BY <1>1, <2>1, <2>2 DEF DecodeHeader, HeaderLen, EntryLen
  <1>9. [k \in 1 .. n |-> at(k)] = h.sections
    <2>1. [k \in 1 .. n |-> at(k)] = [k \in 1 .. n |-> h.sections[k]]
      BY <1>7
    <2>2. QED
      BY <1>1, <2>1
  <1>10. [format |-> h.format, version |-> h.version, flags |-> h.flags,
          created_at |-> h.created_at, body_len |-> h.body_len, sections |-> h.sections] = h
    BY DEF Headers
  <1>11. DecodeHeader(buf) = Decoded(h)
    <2> HIDE DEF at
    <2> QED
      BY <1>8, <1>9, <1>10
  <1>12. QED
    BY <1>2, <1>11 DEF ComesBack, buf

\* What DecodeHeader reads: a header whose fields and entries are the cells.
LEMMA HeaderRead ==
    ASSUME NEW buf \in Seq(Nat), DecodeHeader(buf).kind = "ok"
    PROVE  LET v == DecodeHeader(buf).is
           IN /\ v \in Headers
              /\ Len(buf) >= 9 + Len(v.sections) * 6
              /\ \A p \in 1 .. 8 : buf[p] = Nine(v, Len(v.sections))[p]
              /\ \A k \in 1 .. Len(v.sections) : v.sections[k] = EntryAt(buf, 9 + (k - 1) * 6)
  <1> DEFINE v == DecodeHeader(buf).is
             n == buf[7]
             at(k) == EntryAt(buf, 9 + (k - 1) * 6)
             table == [k \in 1 .. n |-> at(k)]
  <1>1. /\ ~(Len(buf) < 9) /\ buf[1] = Magic /\ buf[2] \in FormatIds /\ buf[8] = HeaderLen
        /\ ~(Len(buf) < 9 + n * 6)
    BY DEF DecodeHeader, Malformed, Invalid, HeaderLen, EntryLen
  <1>2. Len(buf) \in Nat /\ Len(buf) >= 9 /\ \A p \in 1 .. Len(buf) : buf[p] \in Nat
    <2>1. \A p \in 1 .. Len(buf) : buf[p] \in Nat
      BY ElementOfSeq
    <2>2. Len(buf) \in Nat
      OBVIOUS
    <2>3. Len(buf) >= 9
      BY <1>1, <2>2
    <2>4. QED
      BY <2>1, <2>2, <2>3
  <1>3. n \in Nat
    BY <1>2
  <1>4. v = [format |-> buf[2], version |-> buf[3], flags |-> buf[4], created_at |-> buf[5],
             body_len |-> buf[6], sections |-> table]
    BY <1>1 DEF DecodeHeader, Decoded, HeaderLen, EntryLen
  <1> HIDE DEF v, n
  <1>5. ASSUME NEW k \in 1 .. n PROVE at(k) \in TableEntries
    <2> DEFINE off == 9 + (k - 1) * 6
    <2>1. off \in Nat /\ off + 6 <= Len(buf)
      BY <1>1, <1>2, <1>3
    <2> HIDE DEF off
    <2>2. /\ off + 1 \in 1 .. Len(buf) /\ off + 2 \in 1 .. Len(buf) /\ off + 3 \in 1 .. Len(buf)
          /\ off + 4 \in 1 .. Len(buf) /\ off + 5 \in 1 .. Len(buf)
      BY <1>2, <2>1
    <2>3. /\ buf[off + 1] \in Nat /\ buf[off + 2] \in Nat /\ buf[off + 3] \in Nat
          /\ buf[off + 4] \in Nat /\ buf[off + 5] \in Nat
      BY <1>2, <2>2
    <2>4. EntryAt(buf, off) \in TableEntries
      BY <2>3 DEF EntryAt, TableEntries
    <2>5. QED
      BY <2>4 DEF off
  <1> HIDE DEF at
  <1>6. \A k \in 1 .. n : table[k] = at(k) /\ table[k] \in TableEntries
    BY <1>5
  <1>7. table = [k \in 1 .. n |-> table[k]]
    OBVIOUS
  <1> HIDE DEF table
  <1>8. table \in Seq(TableEntries)
    BY <1>3, <1>6, <1>7, IsASeq
  <1>9. Len(table) = n
    BY <1>3, <1>7, <1>8
  <1>10. /\ v.format = buf[2] /\ v.version = buf[3] /\ v.flags = buf[4]
         /\ v.created_at = buf[5] /\ v.body_len = buf[6] /\ v.sections = table
    BY <1>4
  <1>11. v \in Headers
    <2>1. buf[3] \in Nat /\ buf[4] \in Nat /\ buf[5] \in Nat /\ buf[6] \in Nat
      BY <1>2
    <2>2. QED
      BY <1>1, <1>4, <1>8, <2>1 DEF Headers
  <1>12. \A p \in 1 .. 8 : buf[p] = Nine(v, n)[p]
    <2> DEFINE nine == Nine(v, n)
    <2>1. /\ nine[1] = Magic /\ nine[2] = v.format /\ nine[3] = v.version /\ nine[4] = v.flags
          /\ nine[5] = v.created_at /\ nine[6] = v.body_len /\ nine[7] = n /\ nine[8] = HeaderLen
      BY DEF Nine
    <2> HIDE DEF nine
    <2> SUFFICES ASSUME NEW p \in 1 .. 8 PROVE buf[p] = nine[p]
      BY DEF nine
    <2>2. p = 1 \/ p = 2 \/ p = 3 \/ p = 4 \/ p = 5 \/ p = 6 \/ p = 7 \/ p = 8
      OBVIOUS
    <2>3. QED
      BY <1>1, <1>10, <2>1, <2>2, Zenon DEF n
  <1>13. Len(buf) >= 9 + n * 6
    BY <1>1, <1>2, <1>3
  <1>14. QED
    BY <1>6, <1>9, <1>10, <1>11, <1>12, <1>13 DEF v, at

LEMMA HeaderIsEncoding ==
    ASSUME NEW buf \in Seq(Nat), DecodeHeader(buf).kind = "ok"
    PROVE  LET v == DecodeHeader(buf).is
           IN Canonical(EncodeHeader(v), <<>>, buf,
                        {HeaderLen + k * EntryLen : k \in 0 .. Len(v.sections)}, TRUE)
  <1> DEFINE v == DecodeHeader(buf).is
             n == Len(v.sections)
             nine == Nine(v, n)
             flat == FlattenSeq(Rest(v.sections))
             c == EncodeHeader(v).body
             unread == {9 + k * 6 : k \in 0 .. n}
  <1>1. v \in Headers
    BY HeaderRead
  <1>2. Len(buf) >= 9 + n * 6
    BY HeaderRead
  <1>3. \A p \in 1 .. 8 : buf[p] = nine[p]
    BY HeaderRead
  <1>4. \A k \in 1 .. n : v.sections[k] = EntryAt(buf, 9 + (k - 1) * 6)
    BY HeaderRead
  <1> HIDE DEF v
  <1>5. v.sections \in Seq(TableEntries) /\ n \in Nat
    BY <1>1 DEF Headers
  <1>6. EncodeHeader(v).kind = "ok" /\ EncodeHeader(v).meta = <<>>
    BY <1>1, HeaderCells
  <1>7. Behind(c, nine, 9, flat)
    BY <1>1, HeaderCells
  <1>8. Len(flat) = n * 6
    BY <1>5, TableCells
  <1>9. \A k \in 1 .. n : \A m \in 1 .. 6 : flat[(k - 1) * 6 + m] = EncodeEntry(v.sections[k])[m]
    BY <1>5, TableCells
  <1> HIDE DEF n, nine, flat, c
  <1>10. /\ Len(c) = 9 + n * 6
         /\ \A p \in 1 .. 9 : c[p] = nine[p]
         /\ \A p \in 1 .. n * 6 : c[9 + p] = flat[p]
    BY <1>7, <1>8 DEF Behind
  <1>11. ASSUME NEW k \in 1 .. n, NEW m \in 1 .. 5
         PROVE  EncodeEntry(v.sections[k])[m] = buf[9 + (k - 1) * 6 + m]
    <2> DEFINE off == 9 + (k - 1) * 6
               e == v.sections[k]
    <2>1. e = EntryAt(buf, off)
      BY <1>4
    <2> HIDE DEF off, e
    <2>2. /\ e.type_id = buf[off + 1] /\ e.flags = buf[off + 2] /\ e.offset = buf[off + 3]
          /\ e.length = buf[off + 4] /\ e.checksum = buf[off + 5]
      BY <2>1 DEF EntryAt
    <2>3. EncodeEntry(e)[m] = buf[off + m]
      <3>1. /\ EncodeEntry(e)[1] = e.type_id /\ EncodeEntry(e)[2] = e.flags
            /\ EncodeEntry(e)[3] = e.offset /\ EncodeEntry(e)[4] = e.length
            /\ EncodeEntry(e)[5] = e.checksum
        BY DEF EncodeEntry
      <3>2. m = 1 \/ m = 2 \/ m = 3 \/ m = 4 \/ m = 5
        OBVIOUS
      <3>3. QED
        BY <2>2, <3>1, <3>2, Zenon
    <2>4. QED
      BY <2>3 DEF off, e
  <1>12. ASSUME NEW p \in 1 .. Len(c) PROVE p \in unread \/ buf[p] = c[p]
    <2>1. CASE p <= 8
      <3>1. p \in 1 .. 8 /\ p \in 1 .. 9
        BY <1>5, <1>10, <2>1
      <3>2. QED
        BY <1>3, <1>10, <3>1, Zenon
    <2>2. CASE p = 9
      <3>1. 0 \in 0 .. n /\ p = 9 + 0 * 6
        BY <1>5, <2>2
      <3>2. QED
        BY <3>1
    <2>3. CASE p > 9
      <3>1. PICK k \in 1 .. n, m \in 1 .. 6 : p = 9 + ((k - 1) * 6 + m)
        <4> DEFINE j == p - 10
                   k == (j \div 6) + 1
                   m == (j % 6) + 1
        <4>1. j \in Nat /\ j < n * 6
          BY <1>5, <1>10, <2>3
        <4>2. k \in 1 .. n /\ m \in 1 .. 6 /\ j = (k - 1) * 6 + (m - 1)
          <5> HIDE DEF j
          <5>1. /\ j = 6 * (j \div 6) + (j % 6) /\ j % 6 \in 0 .. 5 /\ j \div 6 \in Nat
            BY <4>1
          <5>2. QED
            BY <1>5, <4>1, <5>1
        <4>3. p = 9 + ((k - 1) * 6 + m)
          BY <4>2
        <4> HIDE DEF k, m
        <4>4. QED
          BY <4>2, <4>3
      <3>2. c[p] = EncodeEntry(v.sections[k])[m]
        <4>1. (k - 1) * 6 + m \in 1 .. n * 6
          BY <1>5
        <4>2. QED
          BY <1>9, <1>10, <3>1, <4>1
      <3>3. CASE m = 6
        <4>1. p = 9 + k * 6 /\ k \in 0 .. n
          BY <1>5, <3>1, <3>3
        <4>2. QED
          BY <4>1
      <3>4. CASE m # 6
        <4>1. m \in 1 .. 5 /\ 9 + (k - 1) * 6 + m = p
          BY <3>1, <3>4
        <4>2. QED
          BY <1>11, <3>2, <4>1
      <3>5. QED
        BY <3>3, <3>4
    <2>4. QED
      BY <1>5, <1>10, <2>1, <2>2, <2>3
  <1>13. Len(c) <= Len(buf)
    BY <1>2, <1>10
  <1>14. Canonical(EncodeHeader(v), <<>>, buf, {HeaderLen + k * EntryLen : k \in 0 .. n}, TRUE)
    BY <1>6, <1>12, <1>13 DEF Canonical, HeaderLen, EntryLen, c
  <1>15. QED
    BY <1>14 DEF v, n

------------------------------------------------------------------------------
(***************************************************************************)
(* The centroids.                                                          *)
(***************************************************************************)
Centroid == [cluster_size : Nat, vector : Seq(Nat)]
Sagas == [dim : Nat, centroids : Seq(Centroid)]

\* Vectors of the saga's dimension.
OfItsDim(saga) == \A k \in 1 .. Len(saga.centroids) : Len(saga.centroids[k].vector) = saga.dim

\* The cells of one centroid, and of each of them.
Row(c) == <<c.cluster_size>> \o c.vector
RowsOf(saga) == [k \in 1 .. Len(saga.centroids) |-> Row(saga.centroids[k])]

LEMMA RowCells ==
    ASSUME NEW c \in Centroid
    PROVE  /\ Row(c) \in Seq(Nat) /\ Len(Row(c)) = 1 + Len(c.vector)
           /\ Row(c)[1] = c.cluster_size
           /\ \A m \in 1 .. Len(c.vector) : Row(c)[1 + m] = c.vector[m]
  <1> DEFINE s == <<c.cluster_size>>
             t == c.vector
             u == s \o t
  <1>1. s \in Seq(Nat) /\ Len(s) = 1 /\ s[1] = c.cluster_size /\ t \in Seq(Nat)
    BY DEF Centroid
  <1> HIDE DEF s, t
  <1>2. u \in Seq(Nat) /\ Behind(u, s, 1, t)
    BY <1>1, JoinedAt
  <1>3. Row(c) = u
    BY DEF Row, u, s, t
  <1> HIDE DEF u
  <1>4. Len(u) = 1 + Len(t) /\ u[1] = s[1] /\ \A m \in 1 .. Len(t) : u[1 + m] = t[m]
    BY <1>2 DEF Behind
  <1>5. QED
    BY <1>1, <1>2, <1>3, <1>4 DEF t

\* The cells of all: rows of equal length.
LEMMA CentroidCells ==
    ASSUME NEW saga \in Sagas, OfItsDim(saga)
    PROVE  /\ EncodeCentroids(saga) =
                Cells([dim |-> saga.dim, count |-> Len(saga.centroids) % CellValues],
                      FlattenSeq(RowsOf(saga)))
           /\ FlattenSeq(RowsOf(saga)) \in Seq(Nat)
           /\ Len(FlattenSeq(RowsOf(saga))) = Len(saga.centroids) * (1 + saga.dim)
           /\ \A k \in 1 .. Len(saga.centroids) : \A m \in 1 .. 1 + saga.dim :
                 FlattenSeq(RowsOf(saga))[(k - 1) * (1 + saga.dim) + m] = Row(saga.centroids[k])[m]
           /\ RowsOf(saga) \in Seq(Seq(Nat)) /\ Len(RowsOf(saga)) = Len(saga.centroids)
           /\ \A k \in 1 .. Len(saga.centroids) :
                 RowsOf(saga)[k] = Row(saga.centroids[k]) /\ Len(RowsOf(saga)[k]) = 1 + saga.dim
  <1> DEFINE n == Len(saga.centroids)
             width == 1 + saga.dim
             parts == RowsOf(saga)
             flat == FlattenSeq(parts)
  <1>1. n \in Nat /\ width \in Nat /\ \A k \in 1 .. n : saga.centroids[k] \in Centroid
    <2>1. saga.centroids \in Seq(Centroid) /\ saga.dim \in Nat
      BY DEF Sagas
    <2>2. \A k \in 1 .. n : saga.centroids[k] \in Centroid
      BY <2>1, ElementOfSeq
    <2>3. QED
      BY <2>1, <2>2
  <1>2. EncodeCentroids(saga) =
          Cells([dim |-> saga.dim, count |-> n % CellValues], FlattenSeq(parts))
    BY DEF EncodeCentroids, OfItsDim, RowsOf, Row
  <1>3. parts = [k \in 1 .. n |-> Row(saga.centroids[k])]
    BY DEF RowsOf
  <1>4. \A k \in 1 .. n : Len(saga.centroids[k].vector) = saga.dim
    BY DEF OfItsDim
  <1> HIDE DEF n, parts
  <1>5. \A k \in 1 .. n : parts[k] = Row(saga.centroids[k])
    BY <1>3
  <1>6. \A k \in 1 .. n : parts[k] \in Seq(Nat) /\ Len(parts[k]) = width
    <2> SUFFICES ASSUME NEW k \in 1 .. n PROVE parts[k] \in Seq(Nat) /\ Len(parts[k]) = width
      OBVIOUS
    <2> DEFINE c == saga.centroids[k]
    <2>1. c \in Centroid /\ Len(c.vector) = saga.dim /\ parts[k] = Row(c)
      BY <1>1, <1>4, <1>5
    <2> HIDE DEF c
    <2>2. Row(c) \in Seq(Nat) /\ Len(Row(c)) = 1 + Len(c.vector)
      BY <2>1, RowCells
    <2>3. QED
      BY <2>1, <2>2
  <1> HIDE DEF width
  <1>7. parts \in Seq(Seq(Nat)) /\ Len(parts) = n
    <2>1. parts = [k \in 1 .. n |-> parts[k]]
      BY <1>3
    <2> DEFINE T == Seq(Nat)
    <2>2. \A k \in 1 .. n : parts[k] \in T
      BY <1>6
    <2> HIDE DEF T
    <2>3. parts \in Seq(T)
      BY <1>1, <2>1, <2>2, IsASeq
    <2>4. Len(parts) = n
      BY <1>1, <2>1, <2>3
    <2>5. QED
      BY <2>3, <2>4 DEF T
  <1>8. \A k \in 1 .. Len(parts) : Len(parts[k]) = width
    BY <1>6, <1>7
  <1>9. flat \in Seq(Nat)
    BY <1>1, <1>7, <1>8, Rows
  <1>10. Len(flat) = Len(parts) * width
    BY <1>1, <1>7, <1>8, Rows
  <1>11. \A k \in 1 .. Len(parts) : \A m \in 1 .. width : flat[(k - 1) * width + m] = parts[k][m]
    BY <1>1, <1>7, <1>8, Rows
  <1> HIDE DEF flat
  <1>12. Len(flat) = n * width
    BY <1>7, <1>10
  <1>13. \A k \in 1 .. n : \A m \in 1 .. width : flat[(k - 1) * width + m] = Row(saga.centroids[k])[m]
    BY <1>5, <1>7, <1>11
  <1>14. EncodeCentroids(saga) = Cells([dim |-> saga.dim, count |-> n % CellValues], flat)
    BY <1>2 DEF flat
  <1>15. \A k \in 1 .. n : parts[k] = Row(saga.centroids[k]) /\ Len(parts[k]) = width
    BY <1>5, <1>6
  <1>16. QED
    BY <1>7, <1>9, <1>12, <1>13, <1>14, <1>15 DEF n, width, parts, flat

\* Where a row ends is within the rows.
LEMMA RowWithin ==
    ASSUME NEW n \in Nat, NEW width \in Nat, NEW k \in 1 .. n
    PROVE  (k - 1) * width \in Nat /\ (k - 1) * width + width <= n * width
  <1> DEFINE j == k - 1
             r == n - k
  <1>1. j \in Nat /\ r \in Nat /\ n = (j + 1) + r
    OBVIOUS
  <1> HIDE DEF j, r
  <1>2. n * width = (j + 1) * width + r * width /\ (j + 1) * width = j * width + width
    BY <1>1
  <1>3. r * width \in Nat /\ j * width \in Nat
    BY <1>1
  <1> DEFINE a == j * width
             b == r * width
  <1>4. n * width = (a + width) + b /\ a \in Nat /\ b \in Nat
    BY <1>2, <1>3
  <1> HIDE DEF a, b
  <1>5. a \in Nat /\ a + width <= n * width
    BY <1>4
  <1>6. QED
    BY <1>5 DEF a, j

\* What CentroidsOf cuts out at each row.
CentroidAt(buf, at, dim) ==
    [cluster_size |-> buf[at + 1], vector |-> SubSeq(buf, at + 2, at + EntrySize(dim))]

LEMMA CentroidCut ==
    ASSUME NEW buf \in Seq(Nat), NEW at \in Nat, NEW dim \in Nat, at + (1 + dim) <= Len(buf)
    PROVE  /\ CentroidAt(buf, at, dim) \in Centroid
           /\ CentroidAt(buf, at, dim).cluster_size = buf[at + 1]
           /\ Len(CentroidAt(buf, at, dim).vector) = dim
           /\ \A m \in 1 .. dim : CentroidAt(buf, at, dim).vector[m] = buf[at + 1 + m]
  <1> DEFINE a == at + 1
             t == SubSeq(buf, a + 1, a + dim)
             c == CentroidAt(buf, at, dim)
  <1>1. a \in Nat /\ a + dim <= Len(buf) /\ a \in 1 .. Len(buf)
    OBVIOUS
  <1>2. at + 2 = a + 1 /\ at + EntrySize(dim) = a + dim
    BY DEF EntrySize
  <1>3. c = [cluster_size |-> buf[a], vector |-> t]
    BY <1>2 DEF CentroidAt
  <1> HIDE DEF a
  <1>4. buf[a] \in Nat
    BY <1>1, ElementOfSeq
  <1>5. t \in Seq(Nat)
    BY <1>1, Part
  <1>6. Len(t) = dim
    BY <1>1, Part
  <1>7. \A m \in 1 .. dim : t[m] = buf[a + m]
    BY <1>1, Part
  <1> HIDE DEF t, c
  <1>8. c \in Centroid /\ c.cluster_size = buf[a] /\ c.vector = t
    BY <1>3, <1>4, <1>5 DEF Centroid
  <1>9. QED
    BY <1>6, <1>7, <1>8 DEF a, c

\* The size that the decoder computes, which its usize holds.
LEMMA NeedFits ==
    ASSUME NEW x \in Nat, x < CellWord
    PROVE  x % CellWord = x /\ ~(x >= CellWord)
  BY CellsAreFields

LEMMA CentroidsComeBack ==
    ASSUME NEW saga \in Sagas, OfItsDim(saga), Len(saga.centroids) < CellValues,
           Len(saga.centroids) * (1 + saga.dim) < CellWord
    PROVE  ComesBack(EncodeCentroids(saga),
                     DecodeCentroids(EncodeCentroids(saga).body, EncodeCentroids(saga).meta), saga)
  <1> DEFINE n == Len(saga.centroids)
             dim == saga.dim
             width == 1 + dim
             flat == FlattenSeq(RowsOf(saga))
             meta == [dim |-> dim, count |-> n % CellValues]
             at(k) == (k - 1) * width
  <1>1. /\ n \in Nat /\ dim \in Nat /\ saga.centroids = [k \in 1 .. n |-> saga.centroids[k]]
        /\ \A k \in 1 .. n : saga.centroids[k] \in Centroid
    <2>1. saga.centroids \in Seq(Centroid) /\ saga.dim \in Nat
      BY DEF Sagas
    <2>2. \A k \in 1 .. n : saga.centroids[k] \in Centroid
      BY <2>1, ElementOfSeq
    <2>3. QED
      BY <2>1, <2>2
  <1>2. EncodeCentroids(saga) = Cells(meta, flat)
    BY CentroidCells
  <1>3. flat \in Seq(Nat)
    BY CentroidCells
  <1>4. Len(flat) = n * width
    BY CentroidCells
  <1>5. \A k \in 1 .. n : \A m \in 1 .. width : flat[(k - 1) * width + m] = Row(saga.centroids[k])[m]
    BY CentroidCells
  <1>6. \A k \in 1 .. n : Len(saga.centroids[k].vector) = dim
    BY DEF OfItsDim
  <1>7. n < CellValues /\ n * width < CellWord
    OBVIOUS
  <1>8. saga = [dim |-> dim, centroids |-> saga.centroids]
    BY DEF Sagas
  <1>9. EncodeCentroids(saga).kind = "ok" /\ EncodeCentroids(saga).body = flat
        /\ EncodeCentroids(saga).meta = meta
    BY <1>2 DEF Cells
  <1> HIDE DEF n, dim, flat
  <1>10. n % CellValues = n
    BY <1>1, <1>7, CellsAreFields
  <1>11. meta.dim = dim /\ meta.count = n
    BY <1>10
  <1> HIDE DEF meta
  <1>12. ASSUME NEW k \in 1 .. n PROVE CentroidAt(flat, at(k), dim) = saga.centroids[k]
    <2> DEFINE c == saga.centroids[k]
               a == at(k)
    <2>1. c \in Centroid /\ Len(c.vector) = dim
      BY <1>1, <1>6
    <2>2. width \in Nat
      BY <1>1
    <2>3. \A m \in 1 .. width : flat[a + m] = Row(c)[m]
      BY <1>5
    <2>4. a \in Nat /\ a + width <= Len(flat)
      <3> HIDE DEF width
      <3>1. (k - 1) * width \in Nat /\ (k - 1) * width + width <= n * width
        BY <1>1, <2>2, RowWithin
      <3>2. QED
        BY <1>4, <3>1
    <2> HIDE DEF a, c
    <2>5. Row(c)[1] = c.cluster_size /\ \A m \in 1 .. dim : Row(c)[1 + m] = c.vector[m]
      <3>1. Row(c)[1] = c.cluster_size
        BY <2>1, RowCells
      <3>2. \A m \in 1 .. Len(c.vector) : Row(c)[1 + m] = c.vector[m]
        BY <2>1, RowCells
      <3>3. QED
        BY <2>1, <3>1, <3>2
    <2>6. flat[a + 1] = c.cluster_size
      <3>1. 1 \in 1 .. width
        BY <1>1
      <3>2. QED
        BY <2>3, <2>5, <3>1
    <2>7. ASSUME NEW m \in 1 .. dim PROVE flat[(a + 1) + m] = c.vector[m]
      <3>1. 1 + m \in 1 .. width /\ a + (1 + m) = (a + 1) + m
        BY <1>1, <2>4
      <3>2. flat[a + (1 + m)] = Row(c)[1 + m]
        BY <2>3, <3>1
      <3>3. QED
        BY <2>5, <3>1, <3>2
    <2> DEFINE b == a + 1
               v == c.vector
    <2>8. b \in Nat /\ v \in Seq(Nat) /\ b + Len(v) <= Len(flat)
      BY <1>1, <2>1, <2>4 DEF Centroid
    <2>9. \A m \in 1 .. Len(v) : flat[b + m] = v[m]
      BY <2>1, <2>7
    <2>10. a + 2 = b + 1 /\ a + EntrySize(dim) = b + Len(v)
      BY <1>1, <2>1, <2>4 DEF EntrySize
    <2> HIDE DEF b, v
    <2>11. SubSeq(flat, b + 1, b + Len(v)) = v
      BY <1>3, <2>8, <2>9, PartOf
    <2>12. CentroidAt(flat, a, dim) = [cluster_size |-> c.cluster_size, vector |-> c.vector]
      BY <2>6, <2>10, <2>11 DEF CentroidAt, v
    <2>13. c = [cluster_size |-> c.cluster_size, vector |-> c.vector]
      BY <2>1 DEF Centroid
    <2>14. QED
      BY <2>12, <2>13 DEF a, c
  <1>13. [k \in 1 .. n |-> CentroidAt(flat, at(k), dim)] = saga.centroids
    <2>1. [k \in 1 .. n |-> CentroidAt(flat, at(k), dim)] = [k \in 1 .. n |-> saga.centroids[k]]
      BY <1>12
    <2>2. QED
      BY <1>1, <2>1
  <1>14. CentroidsOf(flat, meta) =
            [dim |-> dim, centroids |-> [k \in 1 .. n |-> CentroidAt(flat, at(k), dim)]]
    BY <1>11 DEF CentroidsOf, CentroidAt, EntrySize
  <1>15. DecodeCentroids(flat, meta) = Decoded(CentroidsOf(flat, meta))
    <2> DEFINE need == n * width
    <2>1. meta.count * EntrySize(meta.dim) = need
      BY <1>11 DEF EntrySize
    <2>2. need \in Nat /\ need < CellWord /\ Len(flat) = need
      BY <1>1, <1>4, <1>7
    <2> HIDE DEF need
    <2>3. need % CellWord = need /\ ~(need >= CellWord) /\ ~(need > need)
      BY <2>2, NeedFits
    <2>4. QED
      BY <2>1, <2>2, <2>3 DEF DecodeCentroids
  <1>16. DecodeCentroids(flat, meta) = Decoded(saga)
    <2> HIDE DEF at
    <2>1. CentroidsOf(flat, meta) = saga
      BY <1>8, <1>13, <1>14
    <2>2. QED
      BY <1>15, <2>1
  <1>17. QED
    BY <1>3, <1>9, <1>16 DEF ComesBack

\* A count that "as u32" cuts to nothing leaves rows that no one asked for.
LEMMA CutCountIsRefused ==
    ASSUME NEW saga \in Sagas, OfItsDim(saga), Len(saga.centroids) = CellValues
    PROVE  /\ EncodeCentroids(saga).kind = "ok"
           /\ DecodeCentroids(EncodeCentroids(saga).body, EncodeCentroids(saga).meta) = Malformed
  <1> DEFINE n == Len(saga.centroids)
             dim == saga.dim
             flat == FlattenSeq(RowsOf(saga))
             meta == [dim |-> dim, count |-> n % CellValues]
  <1>1. n = CellValues /\ n \in Nat /\ n > 0 /\ dim \in Nat
    BY CellsAreFields DEF Sagas
  <1>2. EncodeCentroids(saga) = Cells(meta, flat)
    BY CentroidCells
  <1>3. Len(flat) = n * (1 + dim)
    BY CentroidCells
  <1>4. EncodeCentroids(saga).kind = "ok" /\ EncodeCentroids(saga).body = flat
        /\ EncodeCentroids(saga).meta = meta
    BY <1>2 DEF Cells
  <1> HIDE DEF n, dim, flat
  <1>5. n % CellValues = 0
    <2>1. CellValues \in Nat /\ CellValues > 0
      BY CellsAreFields
    <2>2. QED
      BY <1>1, <2>1
  <1>6. meta.dim = dim /\ meta.count = 0
    BY <1>5
  <1> HIDE DEF meta
  <1>7. n * (1 + dim) >= n
    <2>1. n * (1 + dim) = n + n * dim /\ n * dim \in Nat
      BY <1>1
    <2>2. QED
      BY <1>1, <2>1
  <1>8. meta.count * EntrySize(meta.dim) = 0
    BY <1>1, <1>6 DEF EntrySize
  <1>9. 0 % CellWord = 0 /\ ~(0 >= CellWord)
    BY CellsAreFields
  <1>10. Len(flat) # 0
    BY <1>1, <1>3, <1>7
  <1>11. DecodeCentroids(flat, meta) = Malformed
    BY <1>8, <1>9, <1>10 DEF DecodeCentroids
  <1>12. QED
    BY <1>4, <1>11

\* What decides about a section of centroids.
LEMMA CentroidsRead ==
    ASSUME NEW buf \in Seq(Nat), NEW meta, meta.dim \in Nat, meta.count \in Nat
    PROVE  /\ DecodeCentroids(buf, meta) = Panics => meta.count * EntrySize(meta.dim) >= CellWord
           /\ DecodeCentroids(buf, meta).kind = "ok" =>
                 /\ DecodeCentroids(buf, meta) = Decoded(CentroidsOf(buf, meta))
                 /\ Len(buf) = meta.count * EntrySize(meta.dim)
  <1> DEFINE need == meta.count * EntrySize(meta.dim)
  <1>1. need \in Nat /\ Len(buf) \in Nat
    BY DEF EntrySize
  <1>2. DecodeCentroids(buf, meta) =
          IF need >= CellWord /\ build = "debug" THEN Panics
          ELSE IF Len(buf) # need % CellWord THEN Malformed
          ELSE IF need > Len(buf) THEN Panics
          ELSE Decoded(CentroidsOf(buf, meta))
    BY DEF DecodeCentroids
  <1> HIDE DEF need
  <1>3. need < CellWord => need % CellWord = need
    BY <1>1, NeedFits
  <1>4. need % CellWord <= need /\ need % CellWord \in Nat
    <2>1. CellWord \in Nat /\ CellWord > 0
      BY CellsAreFields
    <2> DEFINE q == need \div CellWord
    <2>2. need = CellWord * q + (need % CellWord) /\ need % CellWord \in Nat /\ q \in Nat
      BY <1>1, <2>1
    <2> HIDE DEF q
    <2>3. CellWord * q \in Nat
      BY <2>1, <2>2
    <2>4. QED
      BY <1>1, <2>2, <2>3
  <1>5. Panics # Malformed /\ Malformed.kind # "ok" /\ Panics.kind # "ok"
        /\ Panics # Decoded(CentroidsOf(buf, meta))
    <2>1. Panics.kind = "panic" /\ Malformed.kind = "Malformed"
          /\ Decoded(CentroidsOf(buf, meta)).kind = "ok"
      BY Kinds
    <2>2. QED
      BY <2>1, Zenon
  <1>6. DecodeCentroids(buf, meta) = Panics => need >= CellWord
    <2> SUFFICES ASSUME need < CellWord PROVE DecodeCentroids(buf, meta) # Panics
      BY <1>1, CellsAreFields
    <2>1. ~(need >= CellWord)
      BY <1>1, CellsAreFields
    <2>2. need % CellWord = need
      BY <1>3
    <2>3. Len(buf) = need => ~(need > Len(buf))
      BY <1>1
    <2>4. QED
      BY <1>2, <1>5, <2>1, <2>2, <2>3, Zenon
  <1>7. DecodeCentroids(buf, meta).kind = "ok" =>
           Len(buf) = need % CellWord /\ ~(need > Len(buf))
             /\ DecodeCentroids(buf, meta) = Decoded(CentroidsOf(buf, meta))
    BY <1>2, <1>5, Zenon
  <1>8. DecodeCentroids(buf, meta).kind = "ok" =>
           Len(buf) = need /\ DecodeCentroids(buf, meta) = Decoded(CentroidsOf(buf, meta))
    BY <1>1, <1>4, <1>7
  <1>9. QED
    BY <1>6, <1>8 DEF need

LEMMA CentroidsAreEncoding ==
    ASSUME NEW buf \in Seq(Nat), NEW meta \in [dim : Field, count : Field],
           DecodeCentroids(buf, meta).kind = "ok"
    PROVE  Canonical(EncodeCentroids(DecodeCentroids(buf, meta).is), meta, buf, {}, FALSE)
  <1> DEFINE v == CentroidsOf(buf, meta)
             n == meta.count
             dim == meta.dim
             width == 1 + dim
             at(k) == (k - 1) * width
             parts == RowsOf(v)
             flat == FlattenSeq(parts)
             places == [i \in 1 .. Len(parts) |-> (i - 1) * width]
  <1>1. /\ n \in Nat /\ dim \in Nat /\ n < CellValues
        /\ meta = [dim |-> dim, count |-> n]
    BY CellsAreFields DEF Field
  <1>2. DecodeCentroids(buf, meta) = Decoded(v) /\ Len(buf) = n * width
    <2>1. /\ DecodeCentroids(buf, meta) = Decoded(CentroidsOf(buf, meta))
          /\ Len(buf) = meta.count * EntrySize(meta.dim)
      BY <1>1, CentroidsRead
    <2>2. QED
      BY <2>1 DEF EntrySize
  <1>3. v = [dim |-> dim, centroids |-> [k \in 1 .. n |-> CentroidAt(buf, at(k), dim)]]
    BY DEF CentroidsOf, CentroidAt, EntrySize
  <1> HIDE DEF v, n, dim
  <1>4. v.dim = dim /\ v.centroids = [k \in 1 .. n |-> CentroidAt(buf, at(k), dim)]
    BY <1>3
  <1>5. width \in Nat
    BY <1>1
  <1>6. ASSUME NEW k \in 1 .. n PROVE at(k) \in Nat /\ at(k) + (1 + dim) <= Len(buf)
    <2> HIDE DEF width
    <2>1. (k - 1) * width \in Nat /\ (k - 1) * width + width <= n * width
      BY <1>1, <1>5, RowWithin
    <2>2. QED
      BY <1>2, <2>1 DEF width
  <1> HIDE DEF at
  <1>7. \A k \in 1 .. n : CentroidAt(buf, at(k), dim) \in Centroid
    BY <1>1, <1>6, CentroidCut
  <1>8. v.centroids \in Seq(Centroid) /\ Len(v.centroids) = n
    <2> DEFINE cs == v.centroids
    <2>1. cs = [k \in 1 .. n |-> cs[k]] /\ \A k \in 1 .. n : cs[k] \in Centroid
      BY <1>4, <1>7
    <2> HIDE DEF cs
    <2>2. cs \in Seq(Centroid)
      BY <1>1, <2>1, IsASeq
    <2>3. Len(cs) = n
      BY <1>1, <2>1, <2>2
    <2>4. QED
      BY <2>2, <2>3 DEF cs
  <1>9. \A k \in 1 .. n : v.centroids[k] = CentroidAt(buf, at(k), dim)
    BY <1>4
  <1>10. v \in Sagas
    <2>1. v = [dim |-> v.dim, centroids |-> v.centroids]
      BY <1>3, <1>4
    <2>2. QED
      BY <1>1, <1>4, <1>8, <2>1 DEF Sagas
  <1>11. OfItsDim(v)
    <2>1. \A k \in 1 .. n : Len(CentroidAt(buf, at(k), dim).vector) = dim
      BY <1>1, <1>6, CentroidCut
    <2>2. QED
      BY <1>4, <1>8, <1>9, <2>1 DEF OfItsDim
  <1>12. EncodeCentroids(v) = Cells([dim |-> v.dim, count |-> Len(v.centroids) % CellValues], flat)
    BY <1>10, <1>11, CentroidCells
  <1>13. Len(flat) = Len(v.centroids) * (1 + v.dim)
    BY <1>10, <1>11, CentroidCells
  <1>14. parts \in Seq(Seq(Nat)) /\ Len(parts) = Len(v.centroids)
    BY <1>10, <1>11, CentroidCells
  <1>15. \A k \in 1 .. Len(v.centroids) :
             parts[k] = Row(v.centroids[k]) /\ Len(parts[k]) = 1 + v.dim
    BY <1>10, <1>11, CentroidCells
  <1> HIDE DEF parts
  <1>16. Len(parts) = n /\ \A k \in 1 .. n : parts[k] = Row(v.centroids[k]) /\ Len(parts[k]) = width
    BY <1>4, <1>8, <1>14, <1>15
  <1>17. Consecutive(places, 0, parts)
    <2>1. \A i \in 1 .. Len(parts) : Len(parts[i]) = width
      BY <1>16
    <2> HIDE DEF width
    <2>2. QED
      BY <1>5, <1>14, <2>1, Rows
  <1>18. ASSUME NEW i \in 1 .. n, NEW m \in 1 .. width
         PROVE  buf[places[i] + m] = parts[i][m]
    <2> DEFINE a == at(i)
               c == CentroidAt(buf, a, dim)
    <2>1. places[i] = a /\ parts[i] = Row(c)
      BY <1>9, <1>16 DEF at
    <2>2. a \in Nat /\ a + (1 + dim) <= Len(buf)
      BY <1>6
    <2> HIDE DEF a
    <2>3. c \in Centroid
      BY <1>1, <2>2, CentroidCut
    <2>4. c.cluster_size = buf[a + 1]
      BY <1>1, <2>2, CentroidCut
    <2>5. Len(c.vector) = dim
      BY <1>1, <2>2, CentroidCut
    <2>6. \A j \in 1 .. dim : c.vector[j] = buf[a + 1 + j]
      BY <1>1, <2>2, CentroidCut
    <2> HIDE DEF c
    <2>7. Row(c)[1] = c.cluster_size
      BY <2>3, RowCells
    <2>8. \A j \in 1 .. dim : Row(c)[1 + j] = c.vector[j]
      <3>1. \A j \in 1 .. Len(c.vector) : Row(c)[1 + j] = c.vector[j]
        BY <2>3, RowCells
      <3>2. QED
        BY <2>5, <3>1
    <2>9. CASE m = 1
      BY <2>1, <2>4, <2>7, <2>9
    <2>10. CASE m # 1
      <3>1. m - 1 \in 1 .. dim /\ 1 + (m - 1) = m /\ a + 1 + (m - 1) = a + m
        BY <1>1, <2>2, <2>10
      <3>2. Row(c)[1 + (m - 1)] = buf[a + 1 + (m - 1)]
        BY <2>6, <2>8, <3>1
      <3>3. QED
        BY <2>1, <3>1, <3>2
    <2>11. QED
      BY <2>9, <2>10
  <1> HIDE DEF places, width
  <1>19. ReadAt(buf, places, parts)
    BY <1>16, <1>18 DEF ReadAt
  <1>20. Follows(buf, 0, flat)
    <2>1. 0 \in Nat /\ parts \in Seq(Seq(Nat))
      BY <1>14
    <2>2. QED
      BY <1>17, <1>19, <2>1, Unflattened
  <1> HIDE DEF flat
  <1>21. Len(flat) = Len(buf)
    BY <1>2, <1>4, <1>8, <1>13 DEF width
  <1>22. \A p \in 1 .. Len(flat) : buf[p] = flat[p]
    <2>1. \A p \in 1 .. Len(flat) : 0 + p = p
      BY <1>21
    <2>2. QED
      BY <1>20, <2>1 DEF Follows
  <1>23. n % CellValues = n
    BY <1>1, CellsAreFields
  <1>24. EncodeCentroids(v) = Cells(meta, flat)
    BY <1>1, <1>4, <1>8, <1>12, <1>23
  <1>25. EncodeCentroids(v).kind = "ok" /\ EncodeCentroids(v).meta = meta /\ EncodeCentroids(v).body = flat
    BY <1>24 DEF Cells
  <1>26. Canonical(EncodeCentroids(v), meta, buf, {}, FALSE)
    BY <1>21, <1>22, <1>25 DEF Canonical
  <1>27. DecodeCentroids(buf, meta).is = v
    BY <1>2 DEF Decoded
  <1>28. QED
    BY <1>26, <1>27

------------------------------------------------------------------------------
(***************************************************************************)
(* The tags.                                                               *)
(***************************************************************************)
TagEntries == [count : Nat, tag : Text]

\* The cells of one entry.
TagRow(e) == <<e.count, Len(e.tag)>> \o e.tag
TagRows(entries) == [k \in 1 .. Len(entries) |-> TagRow(entries[k])]

\* The states of the decoder's loop.
LoopStates == [ok : BOOLEAN, cur : Nat, out : Seq(TagEntries)]

\* The cells of e are in buf behind cur.
EntryIn(buf, cur, e) == \A m \in 1 .. Len(TagRow(e)) : buf[cur + m] = TagRow(e)[m]

LEMMA TagRowCells ==
    ASSUME NEW e \in TagEntries
    PROVE  /\ TagRow(e) \in Seq(Nat) /\ Len(TagRow(e)) = 2 + Len(e.tag)
           /\ TagRow(e)[1] = e.count /\ TagRow(e)[2] = Len(e.tag)
           /\ \A m \in 1 .. Len(e.tag) : TagRow(e)[2 + m] = e.tag[m]
           /\ e.tag \in Seq(Nat) /\ Utf8(e.tag) /\ Len(e.tag) \in Nat
  <1> DEFINE t == e.tag
             s == <<e.count, Len(t)>>
             u == s \o t
  <1>1. t \in Text /\ e.count \in Nat
    BY DEF TagEntries
  <1>2. t \in Seq(Nat) /\ Utf8(t) /\ Len(t) \in Nat
    BY <1>1, TextIsCells
  <1> HIDE DEF t
  <1>3. s \in Seq(Nat) /\ Len(s) = 2 /\ s[1] = e.count /\ s[2] = Len(t)
    BY <1>1, <1>2
  <1> HIDE DEF s
  <1>4. u \in Seq(Nat) /\ Behind(u, s, 2, t)
    BY <1>2, <1>3, JoinedAt
  <1>5. TagRow(e) = u
    BY DEF TagRow, u, s, t
  <1> HIDE DEF u
  <1>6. Len(u) = 2 + Len(t) /\ u[1] = s[1] /\ u[2] = s[2] /\ \A m \in 1 .. Len(t) : u[2 + m] = t[m]
    BY <1>4 DEF Behind
  <1>7. QED
    BY <1>2, <1>3, <1>4, <1>5, <1>6 DEF t

\* Cells that are UTF-8 are a string.
LEMMA CellsAreText ==
    ASSUME NEW s \in Seq(Nat), Utf8(s)
    PROVE  s \in Text
  <1>1. \A k \in 1 .. Len(s) : s[k] \in 0 .. 2
    BY DEF Utf8, Ascii, Lead, Continuation
  <1>2. s = [k \in 1 .. Len(s) |-> s[k]] /\ Len(s) \in Nat
    OBVIOUS
  <1>3. s \in Seq(0 .. 2)
    BY <1>1, <1>2, IsASeq
  <1>4. QED
    BY <1>3 DEF Text

\* The entry that one round of the loop took in.
Took(buf, at, next, e) ==
    /\ e \in TagEntries
    /\ at.ok
    /\ next.out = Append(at.out, e)
    /\ next.cur = at.cur + Len(TagRow(e))
    /\ EntryIn(buf, at.cur, e)
    /\ next.cur <= Len(buf)
    /\ at.cur + 2 \in 1 .. Len(buf) /\ Len(e.tag) = buf[at.cur + 2]

LEMMA TagStep ==
    ASSUME NEW buf \in Seq(Nat), NEW at \in LoopStates
    PROVE  /\ TagAt(buf, at) \in LoopStates
           /\ TagAt(buf, at).ok => \E e : Took(buf, at, TagAt(buf, at), e)
  <1> DEFINE body == at.cur + 2
             n == buf[body]
             end == body + n
             tag == SubSeq(buf, body + 1, body + n)
             e == [count |-> buf[at.cur + 1], tag |-> tag]
             next == TagAt(buf, at)
             taken == at.ok /\ body <= Len(buf) /\ end <= Len(buf) /\ Utf8(tag)
  <1>1. at.ok \in BOOLEAN /\ at.cur \in Nat /\ at.out \in Seq(TagEntries) /\ body \in Nat
        /\ Len(buf) \in Nat
    BY DEF LoopStates
  <1>2. next = IF taken THEN [ok |-> TRUE, cur |-> end, out |-> Append(at.out, e)]
               ELSE [at EXCEPT !.ok = FALSE]
    BY DEF TagAt
  <1>3. CASE ~taken
    <2>1. next = [at EXCEPT !.ok = FALSE]
      BY <1>2, <1>3
    <2> HIDE DEF next
    <2>2. next \in LoopStates /\ next.ok = FALSE
      BY <2>1 DEF LoopStates
    <2>3. QED
      BY <2>2 DEF next
  <1>4. CASE taken
    <2>1. next = [ok |-> TRUE, cur |-> end, out |-> Append(at.out, e)]
      BY <1>2, <1>4
    <2>2. body \in 1 .. Len(buf) /\ at.cur + 1 \in 1 .. Len(buf)
      <3>1. at.cur + 2 <= Len(buf)
        BY <1>4
      <3> DEFINE c == at.cur
                 m == Len(buf)
      <3>2. c \in Nat /\ m \in Nat /\ c + 2 <= m
        BY <1>1, <3>1
      <3> HIDE DEF c, m
      <3>3. c + 2 \in 1 .. m /\ c + 1 \in 1 .. m
        BY <3>2
      <3>4. QED
        BY <3>3 DEF c, m
    <2>3. n \in Nat /\ buf[at.cur + 1] \in Nat
      <3> DEFINE i == at.cur + 1
      <3> HIDE DEF body, i
      <3>1. buf[body] \in Nat /\ buf[i] \in Nat
        BY <2>2, ElementOfSeq DEF i
      <3>2. QED
        BY <3>1 DEF i
    <2>4. body + n <= Len(buf) /\ Utf8(tag)
      BY <1>4
    <2> HIDE DEF body, n, next
    <2>5. tag \in Seq(Nat)
      BY <1>1, <2>3, <2>4, Part
    <2>6. Len(tag) = n
      BY <1>1, <2>3, <2>4, Part
    <2>7. \A m \in 1 .. n : tag[m] = buf[body + m]
      BY <1>1, <2>3, <2>4, Part
    <2>8. tag \in Text
      BY <2>4, <2>5, CellsAreText
    <2> HIDE DEF tag
    <2>9. e \in TagEntries /\ e.count = buf[at.cur + 1] /\ e.tag = tag
      BY <2>3, <2>8 DEF TagEntries
    <2> HIDE DEF e
    <2>10. next.ok = TRUE /\ next.cur = body + n /\ next.out = Append(at.out, e)
      BY <2>1
    <2>11. next \in LoopStates
      <3>1. Append(at.out, e) \in Seq(TagEntries)
        BY <1>1, <2>9, AppendProperties
      <3>2. QED
        BY <1>1, <2>1, <2>3, <3>1 DEF LoopStates
    <2> DEFINE r == TagRow(e)
    <2>12. Len(r) = 2 + n
      <3>1. Len(r) = 2 + Len(e.tag)
        BY <2>9, TagRowCells
      <3>2. QED
        BY <2>6, <2>9, <3>1
    <2>13. r[1] = buf[at.cur + 1] /\ r[2] = n
      <3>1. r[1] = e.count /\ r[2] = Len(e.tag)
        BY <2>9, TagRowCells
      <3>2. QED
        BY <2>6, <2>9, <3>1
    <2>14. \A m \in 1 .. n : r[2 + m] = tag[m]
      <3>1. \A m \in 1 .. Len(e.tag) : r[2 + m] = e.tag[m]
        BY <2>9, TagRowCells
      <3>2. QED
        BY <2>6, <2>9, <3>1
    <2> HIDE DEF r
    <2>15. ASSUME NEW m \in 1 .. 2 + n PROVE buf[at.cur + m] = r[m]
      <3>1. CASE m = 1
        BY <2>13, <3>1
      <3>2. CASE m = 2
        BY <2>13, <3>2 DEF n, body
      <3>3. CASE m > 2
        <4> DEFINE c == at.cur
        <4>1. body = c + 2 /\ c \in Nat /\ n \in Nat /\ m \in 1 .. 2 + n
          BY <1>1, <2>3 DEF body
        <4> HIDE DEF c
        <4>2. m - 2 \in 1 .. n /\ body + (m - 2) = c + m /\ 2 + (m - 2) = m
          BY <3>3, <4>1
        <4>3. r[2 + (m - 2)] = buf[body + (m - 2)]
          BY <2>7, <2>14, <4>2
        <4>4. QED
          BY <4>2, <4>3 DEF c
      <3>4. QED
        BY <2>3, <3>1, <3>2, <3>3
    <2>16. EntryIn(buf, at.cur, e)
      BY <2>12, <2>15 DEF EntryIn, r
    <2>17. next.cur = at.cur + Len(r)
      <3> DEFINE c == at.cur
                 d == next.cur
                 l == Len(r)
      <3>1. body = c + 2 /\ c \in Nat /\ n \in Nat /\ d = body + n /\ l = 2 + n
        BY <1>1, <2>3, <2>10, <2>12 DEF body
      <3> HIDE DEF c, d, l
      <3>2. d = c + l
        BY <3>1
      <3>3. QED
        BY <3>2 DEF c, d, l
    <2>18. next.cur <= Len(buf)
      BY <2>4, <2>10
    <2>19. Len(e.tag) = buf[at.cur + 2] /\ at.cur + 2 \in 1 .. Len(buf)
      BY <2>2, <2>6, <2>9 DEF n, body
    <2>20. Took(buf, at, next, e)
      BY <1>4, <2>9, <2>10, <2>16, <2>17, <2>18, <2>19 DEF Took, r
    <2>21. QED
      BY <2>11, <2>20 DEF next
  <1>5. QED
    BY <1>3, <1>4

\* An entry that is there is taken in.
LEMMA TagReads ==
    ASSUME NEW buf \in Seq(Nat), NEW at \in LoopStates, at.ok, NEW e \in TagEntries,
           at.cur + Len(TagRow(e)) <= Len(buf), EntryIn(buf, at.cur, e)
    PROVE  TagAt(buf, at) = [ok |-> TRUE, cur |-> at.cur + Len(TagRow(e)), out |-> Append(at.out, e)]
  <1> DEFINE c == at.cur
             t == e.tag
             r == TagRow(e)
             body == c + 2
             n == Len(t)
             tag == SubSeq(buf, body + 1, body + n)
  <1>1. c \in Nat /\ Len(buf) \in Nat /\ c + Len(r) <= Len(buf)
    BY DEF LoopStates
  <1>2. \A m \in 1 .. Len(r) : buf[c + m] = r[m]
    BY DEF EntryIn
  <1>3. r[1] = e.count /\ r[2] = n
    BY TagRowCells
  <1>4. t \in Seq(Nat) /\ Utf8(t) /\ n \in Nat /\ Len(r) = 2 + n
    BY TagRowCells
  <1>5. \A m \in 1 .. n : r[2 + m] = t[m]
    BY TagRowCells
  <1>6. e = [count |-> e.count, tag |-> t]
    BY DEF TagEntries
  <1>7. TagAt(buf, at) =
          LET end == (c + 2) + buf[c + 2]
              cut == SubSeq(buf, (c + 2) + 1, end)
          IN IF at.ok /\ c + 2 <= Len(buf) /\ end <= Len(buf) /\ Utf8(cut)
               THEN [ok |-> TRUE, cur |-> end,
                     out |-> Append(at.out, [count |-> buf[c + 1], tag |-> cut])]
               ELSE [at EXCEPT !.ok = FALSE]
    BY DEF TagAt
  <1> HIDE DEF c, r, n, t
  <1>8. buf[c + 1] = e.count /\ buf[c + 2] = n
    <2>1. 1 \in 1 .. Len(r) /\ 2 \in 1 .. Len(r)
      BY <1>4
    <2>2. QED
      BY <1>2, <1>3, <2>1
  <1>9. body \in Nat /\ body + n <= Len(buf) /\ body <= Len(buf) /\ c + Len(r) = body + n
    BY <1>1, <1>4
  <1>10. ASSUME NEW m \in 1 .. n PROVE buf[body + m] = t[m]
    <2>1. 2 + m \in 1 .. Len(r) /\ c + (2 + m) = body + m
      BY <1>1, <1>4
    <2>2. buf[c + (2 + m)] = r[2 + m]
      BY <1>2, <2>1
    <2>3. QED
      BY <1>5, <2>1, <2>2
  <1>11. tag = t
    <2> HIDE DEF body
    <2>1. SubSeq(buf, body + 1, body + Len(t)) = t
      BY <1>4, <1>9, <1>10, PartOf DEF n
    <2>2. QED
      BY <2>1 DEF n
  <1>12. TagAt(buf, at) = [ok |-> TRUE, cur |-> body + n,
                           out |-> Append(at.out, [count |-> e.count, tag |-> t])]
    BY <1>4, <1>7, <1>8, <1>9, <1>11
  <1>13. QED
    BY <1>6, <1>9, <1>12 DEF c, r

\* The loop is what its recursion says, and every state of it is a loop state.
TagStart == [ok |-> TRUE, cur |-> 1, out |-> <<>>]

LEMMA StartIs == TagStart \in LoopStates
  BY EmptySeq DEF TagStart, LoopStates

LEMMA LoopIs ==
    ASSUME NEW buf \in Seq(Nat), NEW n \in Nat, buf[1] + 1 = n
    PROVE  /\ \A k \in 1 .. n :
                 EntriesFrom(buf)[k] = IF k = 1 THEN TagStart ELSE TagAt(buf, EntriesFrom(buf)[k - 1])
           /\ \A k \in 1 .. n : EntriesFrom(buf)[k] \in LoopStates
  <1> DEFINE D == LoopStates
             Fn(p) == p = [k \in 1 .. n |-> IF k = 1 THEN TagStart ELSE TagAt(buf, p[k - 1])]
             step == [k \in 1 .. n |-> [x \in D |-> TagAt(buf, x)]]
             f == EntriesFrom(buf)
  <1>1. \A x \in D : TagAt(buf, x) \in D
    BY TagStep
  <1>2. TagStart \in D
    BY StartIs
  <1> HIDE DEF D
  <1>3. step \in [1 .. n -> [D -> D]]
    BY <1>1
  <1>4. \A k \in 1 .. n : \A x \in D : step[k][x] = TagAt(buf, x)
    OBVIOUS
  <1> HIDE DEF step
  <1>5. PICK g \in [1 .. n -> D] : Recursive(g, n, TagStart, step)
    BY <1>2, <1>3, Recursion
  <1>6. ASSUME NEW k \in 1 .. n PROVE g[k] = IF k = 1 THEN TagStart ELSE TagAt(buf, g[k - 1])
    <2>1. CASE k = 1
      BY <1>5, <2>1 DEF Recursive
    <2>2. CASE k # 1
      <3>1. k - 1 \in 1 .. n
        BY <2>2
      <3>2. g[k - 1] \in D
        BY <3>1
      <3>3. g[k] = step[k][g[k - 1]]
        BY <1>5, <2>2 DEF Recursive
      <3>4. QED
        BY <1>4, <2>2, <3>2, <3>3
    <2>3. QED
      BY <2>1, <2>2
  <1>7. Fn(g)
    BY <1>6
  <1>8. f = CHOOSE p : Fn(p)
    BY DEF EntriesFrom, TagStart
  <1>9. Fn(f)
    <2> HIDE DEF Fn, f
    <2> QED
      BY <1>7, <1>8
  <1> HIDE DEF f
  <1>10. \A k \in 1 .. n : f[k] = IF k = 1 THEN TagStart ELSE TagAt(buf, f[k - 1])
    BY <1>9
  <1> DEFINE Good == {k \in 1 .. n : f[k] \in D}
  <1>11. n > 0 => 1 \in Good
    BY <1>2, <1>10
  <1>12. \A k \in 1 .. n - 1 : k \in Good => k + 1 \in Good
    <2> SUFFICES ASSUME NEW k \in 1 .. n - 1, f[k] \in D PROVE k + 1 \in Good
      OBVIOUS
    <2>1. k + 1 \in 1 .. n /\ k + 1 # 1 /\ (k + 1) - 1 = k
      OBVIOUS
    <2>2. f[k + 1] = TagAt(buf, f[k])
      BY <1>10, <2>1
    <2>3. QED
      BY <1>1, <2>1, <2>2
  <1> HIDE DEF Good
  <1>13. 1 .. n \subseteq Good
    BY <1>11, <1>12, UpTo
  <1>14. \A k \in 1 .. n : f[k] \in D
    BY <1>13 DEF Good
  <1>15. QED
    BY <1>10, <1>14 DEF D, f

\* The rows of the entries, and the section that is made of them.
LEMMA TagRowsAre ==
    ASSUME NEW entries \in Seq(TagEntries)
    PROVE  /\ TagRows(entries) \in Seq(Seq(Nat)) /\ Len(TagRows(entries)) = Len(entries)
           /\ \A k \in 1 .. Len(entries) :
                 entries[k] \in TagEntries /\ TagRows(entries)[k] = TagRow(entries[k])
  <1> DEFINE n == Len(entries)
             parts == TagRows(entries)
             T == Seq(Nat)
  <1>1. n \in Nat /\ \A k \in 1 .. n : entries[k] \in TagEntries
    <2>1. \A k \in 1 .. n : entries[k] \in TagEntries
      BY ElementOfSeq
    <2>2. QED
      BY <2>1
  <1>2. parts = [k \in 1 .. n |-> TagRow(entries[k])]
    BY DEF TagRows
  <1>3. \A k \in 1 .. n : TagRow(entries[k]) \in T
    BY <1>1, TagRowCells
  <1> HIDE DEF n, T, parts
  <1>4. parts = [k \in 1 .. n |-> parts[k]] /\ \A k \in 1 .. n : parts[k] \in T
    BY <1>2, <1>3
  <1>5. parts \in Seq(T)
    BY <1>1, <1>4, IsASeq
  <1>6. Len(parts) = n
    BY <1>1, <1>4, <1>5
  <1>7. QED
    BY <1>1, <1>2, <1>5, <1>6 DEF n, T, parts

\* Where the rows are in a section that is a count and the rows.
TagPlaces(body, at, entries) ==
    /\ \A k \in 1 .. Len(entries) :
         /\ EntryIn(body, at[k], entries[k])
         /\ at[k] = IF k = 1 THEN 1 ELSE at[k - 1] + Len(TagRow(entries[k - 1]))
         /\ at[k] \in Nat /\ at[k] + Len(TagRow(entries[k])) <= Len(body)
    /\ Len(body) = IF Len(entries) = 0 THEN 1
                   ELSE at[Len(entries)] + Len(TagRow(entries[Len(entries)]))

LEMMA TagPlacesAre ==
    ASSUME NEW entries \in Seq(TagEntries), NEW count \in Nat
    PROVE  /\ <<count>> \o FlattenSeq(TagRows(entries)) \in Seq(Nat)
           /\ (<<count>> \o FlattenSeq(TagRows(entries)))[1] = count
           /\ Len(<<count>> \o FlattenSeq(TagRows(entries))) >= 1
           /\ \E at : TagPlaces(<<count>> \o FlattenSeq(TagRows(entries)), at, entries)
  <1> DEFINE n == Len(entries)
             parts == TagRows(entries)
             flat == FlattenSeq(parts)
             body == <<count>> \o flat
  <1>1. parts \in Seq(Seq(Nat)) /\ Len(parts) = n
    BY TagRowsAre
  <1>2. \A k \in 1 .. n : entries[k] \in TagEntries /\ parts[k] = TagRow(entries[k])
    BY TagRowsAre
  <1>3. n \in Nat
    OBVIOUS
  <1> HIDE DEF n, parts
  <1>4. PICK at : Consecutive(at, 1, parts)
    BY <1>1, PlacesExist
  <1>5. /\ flat \in Seq(Nat)
        /\ Len(parts) = 0 => Len(flat) = 0
        /\ Len(parts) > 0 => Len(flat) = at[Len(parts)] + Len(parts[Len(parts)]) - 1
        /\ \A i \in 1 .. Len(parts) : \A m \in 1 .. Len(parts[i]) : flat[at[i] - 1 + m] = parts[i][m]
    <2> DEFINE base == 1
    <2>1. base \in Nat /\ parts \in Seq(Seq(Nat)) /\ Consecutive(at, base, parts)
      BY <1>1, <1>4
    <2> HIDE DEF base
    <2>2. flat \in Seq(Nat)
      BY <2>1, Flattened
    <2>3. Len(parts) = 0 => Len(flat) = 0
      BY <2>1, Flattened
    <2>4. Len(parts) > 0 => Len(flat) = at[Len(parts)] + Len(parts[Len(parts)]) - base
      BY <2>1, Flattened
    <2>5. \A i \in 1 .. Len(parts) : \A m \in 1 .. Len(parts[i]) :
             flat[at[i] - base + m] = parts[i][m]
      BY <2>1, Flattened
    <2>6. QED
      BY <2>2, <2>3, <2>4, <2>5 DEF base
  <1>6. \A i \in 1 .. n : at[i] \in Nat /\ 1 <= at[i]
    BY <1>1, <1>4, ConsecutiveGrows
  <1>7. \A i, j \in 1 .. n : i < j => at[i] + Len(parts[i]) <= at[j]
    BY <1>1, <1>4, ConsecutiveGrows
  <1>8. \A k \in 1 .. n : Len(parts[k]) \in Nat
    <2>1. \A k \in 1 .. n : parts[k] \in Seq(Nat)
      BY <1>1, ElementOfSeq
    <2>2. QED
      BY <2>1
  <1> HIDE DEF flat
  <1>9. body \in Seq(Nat) /\ Behind(body, <<count>>, 1, flat)
    <2> DEFINE s == <<count>>
    <2>1. s \in Seq(Nat) /\ Len(s) = 1
      OBVIOUS
    <2> HIDE DEF s
    <2>2. s \o flat \in Seq(Nat) /\ Behind(s \o flat, s, 1, flat)
      BY <1>5, <2>1, JoinedAt
    <2>3. QED
      BY <2>2 DEF s
  <1> HIDE DEF body
  <1>10. Len(body) = 1 + Len(flat) /\ body[1] = count
         /\ \A p \in 1 .. Len(flat) : body[1 + p] = flat[p]
    BY <1>9 DEF Behind
  <1>11. Len(body) = IF n = 0 THEN 1 ELSE at[n] + Len(parts[n])
    <2>1. CASE n = 0
      BY <1>1, <1>5, <1>10, <2>1
    <2>2. CASE n # 0
      <3>1. n \in 1 .. n /\ n > 0
        BY <1>3, <2>2
      <3>2. at[n] \in Nat /\ 1 <= at[n] /\ Len(parts[n]) \in Nat
        BY <1>6, <1>8, <3>1
      <3>3. Len(flat) = at[n] + Len(parts[n]) - 1
        BY <1>1, <1>5, <3>1
      <3>4. QED
        BY <1>10, <2>2, <3>2, <3>3
    <2>3. QED
      BY <2>1, <2>2
  <1>12. \A k \in 1 .. n : at[k] + Len(parts[k]) <= Len(body)
    <2> SUFFICES ASSUME NEW k \in 1 .. n PROVE at[k] + Len(parts[k]) <= Len(body)
      OBVIOUS
    <2>1. n # 0 /\ n \in 1 .. n
      BY <1>3
    <2>2. Len(body) = at[n] + Len(parts[n]) /\ at[n] \in Nat /\ Len(parts[n]) \in Nat
      BY <1>6, <1>8, <1>11, <2>1
    <2>3. CASE k = n
      BY <2>2, <2>3
    <2>4. CASE k # n
      <3>1. at[k] + Len(parts[k]) <= at[n]
        BY <1>3, <1>7, <2>1, <2>4
      <3>2. at[k] \in Nat /\ Len(parts[k]) \in Nat
        BY <1>6, <1>8
      <3>3. QED
        BY <2>2, <3>1, <3>2
    <2>5. QED
      BY <2>3, <2>4
  <1>13. ASSUME NEW k \in 1 .. n PROVE EntryIn(body, at[k], entries[k])
    <2> DEFINE a == at[k]
               r == parts[k]
    <2>1. a \in Nat /\ 1 <= a /\ Len(r) \in Nat /\ a + Len(r) <= Len(body) /\ r = TagRow(entries[k])
      BY <1>2, <1>6, <1>8, <1>12
    <2>2. \A m \in 1 .. Len(r) : flat[a - 1 + m] = r[m]
      BY <1>1, <1>5
    <2>3. Len(body) = 1 + Len(flat) /\ Len(flat) \in Nat
      BY <1>5, <1>10
    <2> HIDE DEF a, r
    <2>4. ASSUME NEW m \in 1 .. Len(r) PROVE body[a + m] = r[m]
      <3> DEFINE l == Len(r)
                 b == Len(body)
                 f == Len(flat)
      <3>1. l \in Nat /\ f \in Nat /\ b = 1 + f /\ a + l <= b /\ m \in 1 .. l
        BY <2>1, <2>3
      <3> HIDE DEF l, b, f
      <3>2. a - 1 + m \in 1 .. f /\ 1 + (a - 1 + m) = a + m
        BY <2>1, <3>1
      <3>3. body[1 + (a - 1 + m)] = flat[a - 1 + m]
        BY <1>10, <3>2 DEF f
      <3>4. QED
        BY <2>2, <3>2, <3>3
    <2>5. QED
      BY <2>1, <2>4 DEF EntryIn, a
  <1>14. ASSUME NEW k \in 1 .. n
         PROVE  at[k] = IF k = 1 THEN 1 ELSE at[k - 1] + Len(TagRow(entries[k - 1]))
    <2>1. at[k] = IF k = 1 THEN 1 ELSE at[k - 1] + Len(parts[k - 1])
      BY <1>1, <1>4 DEF Consecutive
    <2>2. k # 1 => k - 1 \in 1 .. n
      BY <1>3
    <2>3. QED
      BY <1>2, <2>1, <2>2
  <1>15. TagPlaces(body, at, entries)
    <2>1. n # 0 => n \in 1 .. n
      BY <1>3
    <2>2. Len(body) = IF n = 0 THEN 1 ELSE at[n] + Len(TagRow(entries[n]))
      BY <1>2, <1>11, <2>1
    <2>3. \A k \in 1 .. n : at[k] + Len(TagRow(entries[k])) <= Len(body)
      BY <1>2, <1>12
    <2>4. QED
      BY <1>6, <1>13, <1>14, <2>2, <2>3 DEF TagPlaces, n
  <1>16. \E a : TagPlaces(body, a, entries)
    BY <1>15
  <1>17. Len(body) >= 1
    BY <1>5, <1>10
  <1>18. QED
    BY <1>9, <1>10, <1>16, <1>17 DEF body, flat, parts

\* No tag is longer than its length field tells.
ShortTags(entries) == \A k \in 1 .. Len(entries) : Len(entries[k].tag) < CellValues

LEMMA TagsEncoded ==
    ASSUME NEW entries \in Seq(TagEntries)
    PROVE  EncodeTags(entries) =
             IF ShortTags(entries)
               THEN Cells(<<>>, <<Len(entries) % CellValues>> \o FlattenSeq(TagRows(entries)))
               ELSE Malformed
  <1>1. \A k \in 1 .. Len(entries) : Len(entries[k].tag) \in Nat
    <2>1. \A k \in 1 .. Len(entries) : entries[k] \in TagEntries
      BY ElementOfSeq
    <2>2. QED
      BY <2>1, TagRowCells
  <1>2. ShortTags(entries) <=> ~\E k \in 1 .. Len(entries) : Len(entries[k].tag) >= CellValues
    BY <1>1, CellsAreFields DEF ShortTags
  <1>3. TagRows(entries) = [k \in 1 .. Len(entries) |->
                              <<entries[k].count, Len(entries[k].tag)>> \o entries[k].tag]
    BY DEF TagRows, TagRow
  <1>4. QED
    BY <1>2, <1>3 DEF EncodeTags

\* The state of the loop before the k-th entry.
Before(state, k, entries, place) ==
    /\ state.ok /\ state.cur = place /\ Len(state.out) = k - 1
    /\ \A i \in 1 .. k - 1 : state.out[i] = entries[i]

\* After an entry that is there, the loop is before the next one.
LEMMA TagTaken ==
    ASSUME NEW buf \in Seq(Nat), NEW state \in LoopStates, NEW entries \in Seq(TagEntries),
           NEW k \in 1 .. Len(entries), NEW place \in Nat,
           Before(state, k, entries, place), EntryIn(buf, place, entries[k]),
           place + Len(TagRow(entries[k])) <= Len(buf)
    PROVE  Before(TagAt(buf, state), k + 1, entries, place + Len(TagRow(entries[k])))
  <1> DEFINE e == entries[k]
             next == TagAt(buf, state)
             out == state.out
             more == Append(out, e)
  <1>1. e \in TagEntries
    BY ElementOfSeq
  <1>2. out \in Seq(TagEntries)
    BY DEF LoopStates
  <1>3. state.ok /\ state.cur = place /\ Len(out) = k - 1 /\ \A i \in 1 .. k - 1 : out[i] = entries[i]
    BY DEF Before
  <1>4. next = [ok |-> TRUE, cur |-> place + Len(TagRow(e)), out |-> more]
    <2> HIDE DEF e
    <2>1. EntryIn(buf, state.cur, e) /\ state.cur + Len(TagRow(e)) <= Len(buf)
      BY <1>3 DEF e
    <2>2. QED
      BY <1>1, <1>3, <2>1, TagReads
  <1> HIDE DEF next, out
  <1>5. Len(more) = Len(out) + 1 /\ more[Len(out) + 1] = e
        /\ \A i \in 1 .. Len(out) : more[i] = out[i]
    <2> HIDE DEF e
    <2> QED
      BY <1>1, <1>2, AppendProperties
  <1> HIDE DEF more
  <1>6. k \in Nat /\ (k + 1) - 1 = k /\ Len(more) = k /\ more[k] = e
        /\ \A i \in 1 .. k - 1 : more[i] = entries[i]
    BY <1>3, <1>5
  <1>7. \A i \in 1 .. k : more[i] = entries[i]
    BY <1>6
  <1>8. next.ok /\ next.cur = place + Len(TagRow(e)) /\ next.out = more
    BY <1>4
  <1>9. Before(next, k + 1, entries, place + Len(TagRow(e)))
    <2> HIDE DEF e
    <2>1. QED
      BY <1>6, <1>7, <1>8 DEF Before
  <1>10. QED
    BY <1>9 DEF next, e

\* All entries are taken in, up to the end of the section.
LEMMA TagsTaken ==
    ASSUME NEW buf \in Seq(Nat), NEW entries \in Seq(TagEntries), NEW at,
           TagPlaces(buf, at, entries), buf[1] = Len(entries)
    PROVE  /\ Entries(buf).ok /\ Entries(buf).cur = Len(buf)
           /\ Entries(buf).out = entries
  <1> DEFINE n == Len(entries)
             f == EntriesFrom(buf)
             place(k) == IF k <= n THEN at[k] ELSE Len(buf)
             Good == {k \in 1 .. n + 1 : Before(f[k], k, entries, place(k))}
  <1>1. n \in Nat /\ n + 1 \in Nat /\ Len(buf) \in Nat /\ buf[1] + 1 = n + 1
    OBVIOUS
  <1>2. \A k \in 1 .. n : /\ EntryIn(buf, at[k], entries[k])
                          /\ at[k] = IF k = 1 THEN 1 ELSE at[k - 1] + Len(TagRow(entries[k - 1]))
                          /\ at[k] \in Nat /\ at[k] + Len(TagRow(entries[k])) <= Len(buf)
    BY DEF TagPlaces
  <1>3. Len(buf) = IF n = 0 THEN 1 ELSE at[n] + Len(TagRow(entries[n]))
    BY DEF TagPlaces
  <1>4. \A k \in 1 .. n + 1 : f[k] = IF k = 1 THEN TagStart ELSE TagAt(buf, f[k - 1])
    BY <1>1, LoopIs
  <1>5. \A k \in 1 .. n + 1 : f[k] \in LoopStates
    BY <1>1, LoopIs
  <1>6. Entries(buf) = f[n + 1]
    BY DEF Entries
  <1> HIDE DEF n, f
  <1>7. 1 \in Good
    <2>1. f[1] = TagStart /\ 1 \in 1 .. n + 1
      BY <1>1, <1>4
    <2>2. place(1) = 1
      BY <1>1, <1>2, <1>3
    <2>3. Len(TagStart.out) = 0 /\ TagStart.ok /\ TagStart.cur = 1
      BY DEF TagStart
    <2> HIDE DEF place
    <2>4. Before(f[1], 1, entries, place(1))
      BY <2>1, <2>2, <2>3 DEF Before
    <2>5. QED
      BY <2>1, <2>4
  <1>8. \A k \in 1 .. (n + 1) - 1 : k \in Good => k + 1 \in Good
    <2> SUFFICES ASSUME NEW k \in 1 .. n, Before(f[k], k, entries, place(k))
                 PROVE  Before(f[k + 1], k + 1, entries, place(k + 1))
      BY <1>1
    <2>1. k \in 1 .. Len(entries) /\ k \in 1 .. n + 1 /\ k + 1 \in 1 .. n + 1 /\ k + 1 # 1
          /\ (k + 1) - 1 = k /\ k <= n
      BY <1>1 DEF n
    <2>2. f[k + 1] = TagAt(buf, f[k]) /\ f[k] \in LoopStates
      BY <1>4, <1>5, <2>1
    <2>3. place(k) = at[k] /\ at[k] \in Nat /\ EntryIn(buf, at[k], entries[k])
          /\ at[k] + Len(TagRow(entries[k])) <= Len(buf)
      BY <1>2, <2>1
    <2>4. place(k + 1) = at[k] + Len(TagRow(entries[k]))
      <3>1. CASE k = n
        BY <1>1, <1>3, <3>1
      <3>2. CASE k # n
        <4>1. k + 1 \in 1 .. n /\ k + 1 <= n
          BY <1>1, <3>2
        <4>2. QED
          BY <1>2, <2>1, <4>1
      <3>3. QED
        BY <3>1, <3>2
    <2> HIDE DEF place
    <2> DEFINE p == at[k]
    <2>5. Before(f[k], k, entries, p) /\ p \in Nat /\ EntryIn(buf, p, entries[k])
          /\ p + Len(TagRow(entries[k])) <= Len(buf)
      BY <2>3
    <2> HIDE DEF p
    <2>6. Before(TagAt(buf, f[k]), k + 1, entries, p + Len(TagRow(entries[k])))
      BY <2>1, <2>2, <2>5, TagTaken
    <2>7. QED
      BY <2>2, <2>4, <2>6 DEF p
  <1> HIDE DEF Good
  <1>9. 1 .. n + 1 \subseteq Good
    <2> DEFINE l == n + 1
    <2>1. l \in Nat /\ \A k \in 1 .. l - 1 : k \in Good => k + 1 \in Good
      BY <1>1, <1>8
    <2> HIDE DEF l
    <2>2. 1 .. l \subseteq Good
      BY <1>7, <2>1, UpTo
    <2>3. QED
      BY <2>2 DEF l
  <1>10. n + 1 \in 1 .. n + 1 /\ ~(n + 1 <= n) /\ (n + 1) - 1 = n
    BY <1>1
  <1>11. Before(f[n + 1], n + 1, entries, Len(buf))
    BY <1>9, <1>10 DEF Good
  <1> DEFINE last == f[n + 1]
  <1>12. last \in LoopStates
    BY <1>5, <1>10
  <1>13. last.ok /\ last.cur = Len(buf) /\ Len(last.out) = n
         /\ \A i \in 1 .. n : last.out[i] = entries[i]
    BY <1>10, <1>11 DEF Before
  <1> HIDE DEF last
  <1>14. last.out = entries
    <2>1. last.out \in Seq(TagEntries)
      BY <1>12 DEF LoopStates
    <2>2. QED
      BY <1>13, <2>1, SeqEqual DEF n
  <1>15. QED
    BY <1>6, <1>13, <1>14 DEF last

LEMMA TagsComeBack ==
    ASSUME NEW entries \in Seq(TagEntries), ShortTags(entries), Len(entries) < CellValues
    PROVE  ComesBack(EncodeTags(entries), DecodeTags(EncodeTags(entries).body), entries)
  <1> DEFINE n == Len(entries)
             body == <<n>> \o FlattenSeq(TagRows(entries))
  <1>1. n \in Nat /\ n % CellValues = n
    BY CellsAreFields
  <1>2. EncodeTags(entries) = Cells(<<>>, body)
    BY <1>1, TagsEncoded
  <1> HIDE DEF n
  <1>3. body \in Seq(Nat)
    BY <1>1, TagPlacesAre
  <1>4. body[1] = n
    BY <1>1, TagPlacesAre
  <1>5. \E at : TagPlaces(body, at, entries)
    BY <1>1, TagPlacesAre
  <1> HIDE DEF body
  <1>6. PICK at : TagPlaces(body, at, entries)
    BY <1>5
  <1>7. Entries(body).ok /\ Entries(body).cur = Len(body)
    BY <1>3, <1>4, <1>6, TagsTaken DEF n
  <1>8. Entries(body).out = entries
    BY <1>3, <1>4, <1>6, TagsTaken DEF n
  <1>9. Len(body) \in Nat /\ Len(body) >= 1
    BY <1>1, <1>3, TagPlacesAre DEF body
  <1>10. DecodeTags(body) = Decoded(entries)
    BY <1>7, <1>8, <1>9 DEF DecodeTags
  <1>11. EncodeTags(entries).kind = "ok" /\ EncodeTags(entries).body = body
    BY <1>2 DEF Cells
  <1>12. QED
    BY <1>3, <1>10, <1>11 DEF ComesBack

\* A count that "as u32" cuts to nothing leaves rows that no one asked for.
LEMMA CutTagCountIsRefused ==
    ASSUME NEW entries \in Seq(TagEntries), ShortTags(entries), Len(entries) = CellValues
    PROVE  /\ EncodeTags(entries).kind = "ok"
           /\ DecodeTags(EncodeTags(entries).body) = Malformed
  <1> DEFINE n == Len(entries)
             body == <<0>> \o FlattenSeq(TagRows(entries))
  <1>1. n \in Nat /\ n > 0 /\ n % CellValues = 0
    <2>1. CellValues \in Nat /\ CellValues > 0 /\ n = CellValues
      BY CellsAreFields
    <2> HIDE DEF n
    <2>2. QED
      BY <2>1
  <1>2. EncodeTags(entries) = Cells(<<>>, body)
    BY <1>1, TagsEncoded
  <1> HIDE DEF n
  <1>3. body \in Seq(Nat)
    BY TagPlacesAre
  <1>4. body[1] = 0
    BY TagPlacesAre
  <1>5. \E at : TagPlaces(body, at, entries)
    BY TagPlacesAre
  <1> HIDE DEF body
  <1>6. PICK at : TagPlaces(body, at, entries)
    BY <1>5
  <1>7. Len(body) # 1
    <2> DEFINE e == entries[n]
    <2>1. n \in 1 .. n
      BY <1>1
    <2>2. Len(body) = at[n] + Len(TagRow(e)) /\ at[n] \in Nat
      BY <1>1, <1>6, <2>1 DEF TagPlaces, n
    <2>3. e \in TagEntries
      BY <2>1, ElementOfSeq DEF n
    <2> HIDE DEF e
    <2>4. Len(TagRow(e)) = 2 + Len(e.tag)
      BY <2>3, TagRowCells
    <2>5. Len(e.tag) \in Nat
      BY <2>3, TagRowCells
    <2>6. QED
      BY <2>2, <2>4, <2>5
  <1>8. Entries(body) = TagStart
    <2>1. body[1] + 1 = 1 /\ 1 \in 1 .. 1 /\ 1 \in Nat
      BY <1>4
    <2>2. \A k \in 1 .. 1 :
             EntriesFrom(body)[k] = IF k = 1 THEN TagStart ELSE TagAt(body, EntriesFrom(body)[k - 1])
      BY <1>3, <2>1, LoopIs
    <2>3. EntriesFrom(body)[1] = TagStart
      BY <2>1, <2>2
    <2>4. QED
      BY <2>1, <2>3 DEF Entries
  <1>9. DecodeTags(body) = Malformed
    BY <1>7, <1>8 DEF DecodeTags, TagStart
  <1>10. QED
    BY <1>2, <1>9 DEF Cells

\* What the loop took in, where it took it from.
SoFar(f, buf, k) ==
    /\ Len(f[k].out) = k - 1
    /\ \A i \in 1 .. k - 1 :
          /\ EntryIn(buf, f[i].cur, f[k].out[i])
          /\ f[i + 1].cur = f[i].cur + Len(TagRow(f[k].out[i]))
          /\ Len(f[k].out[i].tag) < CellValues

LEMMA SoFarStep ==
    ASSUME NEW buf \in Seq(Field), NEW f, NEW k \in Nat, k > 0,
           f[k] \in LoopStates, f[k + 1] = TagAt(buf, f[k]), f[k + 1].ok,
           f[k].ok => SoFar(f, buf, k)
    PROVE  SoFar(f, buf, k + 1)
  <1> DEFINE at == f[k]
             next == f[k + 1]
             out == at.out
  <1>1. buf \in Seq(Nat) /\ \A i \in 1 .. Len(buf) : buf[i] < CellValues
    <2>1. \A i \in 1 .. Len(buf) : buf[i] \in Field
      BY ElementOfSeq
    <2>2. \A x \in Field : x \in Nat /\ x < CellValues
      BY CellsAreFields DEF Field
    <2>3. buf = [i \in 1 .. Len(buf) |-> buf[i]] /\ Len(buf) \in Nat
      OBVIOUS
    <2>4. \A i \in 1 .. Len(buf) : buf[i] \in Nat
      BY <2>1, <2>2
    <2>5. buf \in Seq(Nat)
      BY <2>3, <2>4, IsASeq
    <2>6. QED
      BY <2>1, <2>2, <2>5
  <1>2. PICK e : Took(buf, at, next, e)
    <2>1. at \in LoopStates /\ next = TagAt(buf, at) /\ next.ok
      OBVIOUS
    <2> HIDE DEF at, next
    <2>2. TagAt(buf, at).ok => \E e : Took(buf, at, TagAt(buf, at), e)
      BY <1>1, <2>1, TagStep
    <2>3. \E e : Took(buf, at, next, e)
      BY <2>1, <2>2
    <2>4. QED
      BY <2>3
  <1>3. e \in TagEntries /\ at.ok /\ next.out = Append(out, e)
        /\ next.cur = at.cur + Len(TagRow(e)) /\ EntryIn(buf, at.cur, e)
        /\ at.cur + 2 \in 1 .. Len(buf) /\ Len(e.tag) = buf[at.cur + 2]
    BY <1>2 DEF Took
  <1>4. SoFar(f, buf, k)
    BY <1>3
  <1>5. out \in Seq(TagEntries)
    BY DEF LoopStates
  <1>6. Len(e.tag) < CellValues
    BY <1>1, <1>3
  <1>7. Len(out) = k - 1 /\ \A i \in 1 .. k - 1 :
            /\ EntryIn(buf, f[i].cur, out[i])
            /\ f[i + 1].cur = f[i].cur + Len(TagRow(out[i]))
            /\ Len(out[i].tag) < CellValues
    BY <1>4 DEF SoFar
  <1> HIDE DEF out
  <1>8. Len(next.out) = Len(out) + 1 /\ next.out[Len(out) + 1] = e
        /\ \A i \in 1 .. Len(out) : next.out[i] = out[i]
    BY <1>3, <1>5, AppendProperties
  <1>9. (k + 1) - 1 = k /\ Len(next.out) = k /\ next.out[k] = e
        /\ \A i \in 1 .. k - 1 : next.out[i] = out[i]
    BY <1>7, <1>8
  <1>10. ASSUME NEW i \in 1 .. k
         PROVE  /\ EntryIn(buf, f[i].cur, next.out[i])
                /\ f[i + 1].cur = f[i].cur + Len(TagRow(next.out[i]))
                /\ Len(next.out[i].tag) < CellValues
    <2>1. CASE i = k
      BY <1>3, <1>6, <1>9, <2>1
    <2>2. CASE i # k
      <3>1. i \in 1 .. k - 1
        BY <2>2
      <3>2. QED
        BY <1>7, <1>9, <3>1
    <2>3. QED
      BY <2>1, <2>2
  <1> HIDE DEF at
  <1>11. QED
    BY <1>9, <1>10 DEF SoFar

LEMMA TagsAreEncoding ==
    ASSUME NEW buf \in Seq(Field), DecodeTags(buf).kind = "ok"
    PROVE  Canonical(EncodeTags(DecodeTags(buf).is), <<>>, buf, {}, FALSE)
  <1> DEFINE n == buf[1]
             f == EntriesFrom(buf)
             v == Entries(buf).out
             parts == TagRows(v)
             flat == FlattenSeq(parts)
             places == [i \in 1 .. n |-> f[i].cur]
             Good == {k \in 1 .. n + 1 : f[k].ok => SoFar(f, buf, k)}
  <1>1. Len(buf) \in Nat /\ Len(buf) >= 1
    <2>1. Malformed.kind # "ok"
      BY Kinds
    <2>2. ~(Len(buf) < 1)
      BY <2>1 DEF DecodeTags
    <2>3. QED
      BY <2>2
  <1>2. Entries(buf).ok /\ Entries(buf).cur = Len(buf) /\ DecodeTags(buf) = Decoded(v)
    <2>1. Malformed.kind # "ok"
      BY Kinds
    <2>2. QED
      BY <2>1 DEF DecodeTags
  <1>3. buf \in Seq(Nat)
    <2>1. \A i \in 1 .. Len(buf) : buf[i] \in Field
      BY ElementOfSeq
    <2>2. \A x \in Field : x \in Nat
      BY CellsAreFields DEF Field
    <2>3. buf = [i \in 1 .. Len(buf) |-> buf[i]] /\ \A i \in 1 .. Len(buf) : buf[i] \in Nat
      BY <2>1, <2>2
    <2>4. QED
      BY <1>1, <2>3, IsASeq
  <1>4. n \in Nat /\ n < CellValues /\ n % CellValues = n
    <2>1. 1 \in 1 .. Len(buf)
      BY <1>1
    <2>2. n \in Field
      BY <2>1, ElementOfSeq
    <2> HIDE DEF n
    <2>3. QED
      BY <2>2, CellsAreFields DEF Field
  <1>5. \A k \in 1 .. n + 1 : f[k] = IF k = 1 THEN TagStart ELSE TagAt(buf, f[k - 1])
    BY <1>3, <1>4, LoopIs
  <1>6. \A k \in 1 .. n + 1 : f[k] \in LoopStates
    BY <1>3, <1>4, LoopIs
  <1>7. Entries(buf) = f[n + 1]
    BY DEF Entries
  <1> HIDE DEF f
  <1>8. 1 \in Good
    <2>1. 1 \in 1 .. n + 1
      BY <1>4
    <2>2. f[1] = TagStart
      BY <1>5, <2>1
    <2>3. Len(f[1].out) = 0
      BY <2>2 DEF TagStart
    <2>4. SoFar(f, buf, 1)
      BY <2>3 DEF SoFar
    <2>5. QED
      BY <2>1, <2>4
  <1>9. \A k \in 1 .. (n + 1) - 1 : k \in Good => k + 1 \in Good
    <2> HIDE DEF n
    <2> SUFFICES ASSUME NEW k \in 1 .. n, f[k].ok => SoFar(f, buf, k), f[k + 1].ok
                 PROVE  SoFar(f, buf, k + 1)
      BY <1>4
    <2>1. k \in Nat /\ k > 0 /\ k \in 1 .. n + 1 /\ k + 1 \in 1 .. n + 1 /\ k + 1 # 1
          /\ (k + 1) - 1 = k
      BY <1>4
    <2>2. f[k + 1] = TagAt(buf, f[k]) /\ f[k] \in LoopStates
      BY <1>5, <1>6, <2>1
    <2>3. QED
      BY <2>1, <2>2, SoFarStep
  <1> HIDE DEF Good
  <1>10. n + 1 \in Good
    <2> DEFINE l == n + 1
    <2>1. l \in Nat /\ l \in 1 .. l /\ \A k \in 1 .. l - 1 : k \in Good => k + 1 \in Good
      BY <1>4, <1>9
    <2> HIDE DEF l
    <2>2. 1 .. l \subseteq Good
      BY <1>8, <2>1, UpTo
    <2>3. QED
      BY <2>1, <2>2 DEF l
  <1>11. SoFar(f, buf, n + 1)
    BY <1>2, <1>7, <1>10 DEF Good
  <1>12. v \in Seq(TagEntries)
    <2>1. f[n + 1] \in LoopStates
      BY <1>4, <1>6
    <2>2. QED
      BY <1>7, <2>1 DEF LoopStates
  <1> HIDE DEF n, v
  <1>13. Len(v) = n /\ \A i \in 1 .. n :
            /\ EntryIn(buf, f[i].cur, v[i])
            /\ f[i + 1].cur = f[i].cur + Len(TagRow(v[i]))
            /\ Len(v[i].tag) < CellValues
    <2>1. (n + 1) - 1 = n
      BY <1>4
    <2>2. QED
      BY <1>7, <1>11, <2>1 DEF SoFar, v
  <1>14. EncodeTags(v) = Cells(<<>>, <<n>> \o flat)
    <2>1. ShortTags(v)
      BY <1>13 DEF ShortTags
    <2>2. QED
      BY <1>4, <1>12, <1>13, <2>1, TagsEncoded
  <1>15. parts \in Seq(Seq(Nat)) /\ Len(parts) = n
    BY <1>12, <1>13, TagRowsAre
  <1>16. \A k \in 1 .. n : parts[k] = TagRow(v[k])
    BY <1>12, <1>13, TagRowsAre
  <1> HIDE DEF parts
  <1>17. f[1].cur = 1
    <2>1. 1 \in 1 .. n + 1
      BY <1>4
    <2>2. QED
      BY <1>5, <2>1 DEF TagStart
  <1>18. Consecutive(places, 1, parts)
    <2> SUFFICES ASSUME NEW i \in 1 .. n
                 PROVE  places[i] = IF i = 1 THEN 1 ELSE places[i - 1] + Len(parts[i - 1])
      BY <1>15 DEF Consecutive
    <2>1. CASE i = 1
      BY <1>17, <2>1
    <2>2. CASE i # 1
      <3>1. i - 1 \in 1 .. n /\ (i - 1) + 1 = i
        BY <1>4, <2>2
      <3>2. f[(i - 1) + 1].cur = f[i - 1].cur + Len(TagRow(v[i - 1]))
        BY <1>13, <3>1
      <3>3. places[i] = f[i].cur /\ places[i - 1] = f[i - 1].cur
        BY <3>1
      <3>4. QED
        BY <1>16, <2>2, <3>1, <3>2, <3>3
    <2>3. QED
      BY <2>1, <2>2
  <1>19. ReadAt(buf, places, parts)
    <2> SUFFICES ASSUME NEW i \in 1 .. n, NEW m \in 1 .. Len(parts[i])
                 PROVE  buf[places[i] + m] = parts[i][m]
      BY <1>15 DEF ReadAt
    <2>1. EntryIn(buf, places[i], v[i])
      BY <1>13
    <2> HIDE DEF places
    <2>2. QED
      BY <1>16, <2>1 DEF EntryIn
  <1>20. Len(flat) = Len(buf) - 1
    <2>1. Len(parts) = 0 => Len(flat) = 0
      BY <1>15, <1>18, Flattened
    <2>2. Len(parts) > 0 => Len(flat) = places[Len(parts)] + Len(parts[Len(parts)]) - 1
      <3> DEFINE base == 1
      <3>1. base \in Nat /\ parts \in Seq(Seq(Nat)) /\ Consecutive(places, base, parts)
        BY <1>15, <1>18
      <3> HIDE DEF base, places
      <3>2. Len(parts) > 0 => Len(flat) = places[Len(parts)] + Len(parts[Len(parts)]) - base
        BY <3>1, Flattened
      <3>3. QED
        BY <3>2 DEF base
    <2>3. CASE n = 0
      BY <1>2, <1>7, <1>15, <1>17, <2>1, <2>3
    <2>4. CASE n # 0
      <3>1. n > 0 /\ n \in 1 .. n
        BY <1>4, <2>4
      <3>2. f[n + 1].cur = f[n].cur + Len(TagRow(v[n]))
        BY <1>13, <3>1
      <3>3. Len(flat) = f[n].cur + Len(TagRow(v[n])) - 1
        BY <1>15, <1>16, <2>2, <3>1
      <3> DEFINE c == f[n].cur
                 r == Len(TagRow(v[n]))
                 l == Len(buf)
      <3>4. Len(flat) = c + r - 1 /\ c + r = l /\ c \in Nat /\ r \in Nat
        <4>1. n \in 1 .. n + 1 /\ v[n] \in TagEntries
          BY <1>4, <1>12, <1>13, <3>1, ElementOfSeq
        <4>2. c \in Nat
          BY <1>6, <4>1 DEF LoopStates
        <4>3. r \in Nat
          BY <4>1, TagRowCells
        <4>4. QED
          BY <1>2, <1>7, <3>2, <3>3, <4>2, <4>3
      <3> HIDE DEF c, r, l
      <3>5. Len(flat) = l - 1
        BY <3>4
      <3>6. QED
        BY <3>5 DEF l
    <2>5. QED
      BY <2>3, <2>4
  <1>21. flat \in Seq(Nat)
    BY <1>15, <1>18, Flattened
  <1>22. Follows(buf, 1, flat)
    <2> DEFINE base == 1
    <2>1. base \in Nat /\ parts \in Seq(Seq(Nat)) /\ Consecutive(places, base, parts)
      BY <1>15, <1>18
    <2> HIDE DEF base, places
    <2>2. Follows(buf, base, FlattenSeq(parts))
      BY <1>19, <2>1, Unflattened
    <2>3. QED
      BY <2>2 DEF base
  <1> HIDE DEF flat
  <1> DEFINE s == <<n>>
             body == s \o flat
  <1>23. s \in Seq(Nat) /\ Len(s) = 1 /\ s[1] = n
    BY <1>4
  <1> HIDE DEF s
  <1>24. Behind(body, s, 1, flat)
    BY <1>21, <1>23, JoinedAt
  <1> HIDE DEF body
  <1>25. Len(body) = Len(buf) /\ body[1] = n /\ \A p \in 1 .. Len(flat) : body[1 + p] = flat[p]
    <2>1. Len(body) = 1 + Len(flat) /\ body[1] = s[1]
          /\ \A p \in 1 .. Len(flat) : body[1 + p] = flat[p]
      BY <1>24 DEF Behind
    <2>2. QED
      BY <1>1, <1>20, <1>23, <2>1
  <1>26. ASSUME NEW k \in 1 .. Len(body) PROVE buf[k] = body[k]
    <2>1. CASE k = 1
      BY <1>25, <2>1 DEF n
    <2>2. CASE k # 1
      <3>1. k - 1 \in 1 .. Len(flat) /\ 1 + (k - 1) = k
        BY <1>1, <1>20, <1>25, <2>2
      <3>2. flat[k - 1] = buf[1 + (k - 1)]
        BY <1>22, <3>1 DEF Follows
      <3>3. QED
        BY <1>25, <3>1, <3>2
    <2>3. QED
      BY <2>1, <2>2
  <1>27. EncodeTags(v) = Cells(<<>>, body)
    BY <1>14 DEF body, s
  <1>28. EncodeTags(v).kind = "ok" /\ EncodeTags(v).meta = <<>> /\ EncodeTags(v).body = body
    BY <1>27 DEF Cells
  <1>29. Canonical(EncodeTags(v), <<>>, buf, {}, FALSE)
    BY <1>25, <1>26, <1>28 DEF Canonical
  <1>30. DecodeTags(buf).is = v
    BY <1>2 DEF Decoded
  <1>31. QED
    BY <1>29, <1>30

------------------------------------------------------------------------------
(***************************************************************************)
(* What the encoder under test is given comes back or is refused.          *)
(***************************************************************************)
Written(v) ==
    /\ Storable(v) => ComesBack(Encoding(v), Decoding(Encoding(v)), v)
    /\ ~Storable(v) => \/ Encoding(v) = Malformed
                       \/ Encoding(v).kind = "ok" /\ Decoding(Encoding(v)) = Malformed

\* A sequence over a larger set.
LEMMA SeqOver ==
    ASSUME NEW S, NEW T, S \subseteq T, NEW s \in Seq(S)
    PROVE  s \in Seq(T)
  <1>1. \A i \in 1 .. Len(s) : s[i] \in S
    BY ElementOfSeq
  <1>2. s = [i \in 1 .. Len(s) |-> s[i]] /\ Len(s) \in Nat /\ \A i \in 1 .. Len(s) : s[i] \in T
    BY <1>1
  <1>3. QED
    BY <1>2, IsASeq

LEMMA BitIsNat == Bit \subseteq Nat
  BY DEF Bit

LEMMA WrittenHeader ==
    ASSUME codec = "header", NEW v \in ValuesOf
    PROVE  Written(v)
  <1> DEFINE S == [type_id : Bit, flags : {1}, offset : Bit, length : {0}, checksum : Bit]
             T == BoundedSeq(S, 2)
  <1>1. v \in [format : FormatIds, version : Bit, flags : Bit, created_at : Bit, body_len : Bit,
               sections : T]
    BY DEF ValuesOf
  <1>2. S \subseteq TableEntries
    <2>1. {0} \subseteq Nat /\ {1} \subseteq Nat
      OBVIOUS
    <2> DEFINE Zero == {0}
               One == {1}
    <2>2. S = [type_id : Bit, flags : One, offset : Bit, length : Zero, checksum : Bit]
      OBVIOUS
    <2> HIDE DEF Zero, One
    <2>3. QED
      BY <2>1, <2>2, BitIsNat DEF TableEntries, Zero, One
  <1>3. \A s \in T : s \in Seq(TableEntries)
    <2> SUFFICES ASSUME NEW s \in T PROVE s \in Seq(TableEntries)
      OBVIOUS
    <2> HIDE DEF S
    <2>1. s \in Seq(S)
      BY BoundedIsSeq
    <2>2. QED
      BY <1>2, <2>1, SeqOver
  <1> HIDE DEF T
  <1>4. v \in Headers
    BY <1>1, <1>3, BitIsNat DEF Headers
  <1>5. Storable(v)
    BY DEF Storable
  <1>6. Encoding(v) = EncodeHeader(v) /\ \A s : Decoding(s) = DecodeHeader(s.body)
    BY DEF Encoding, Decoding
  <1>7. ComesBack(EncodeHeader(v), DecodeHeader(EncodeHeader(v).body), v)
    BY <1>4, HeaderComesBack
  <1>8. QED
    BY <1>5, <1>6, <1>7 DEF Written

LEMMA WrittenMeta ==
    ASSUME codec = "meta", NEW v \in ValuesOf
    PROVE  Written(v)
  <1>1. v \in [tenant_id : Bit, built_at : Bit, record_count : Bit, embedding_dim : Bit,
               centroid_count : Field]
    BY DEF ValuesOf
  <1>2. Field \subseteq Nat
    BY CellsAreFields DEF Field
  <1>3. v \in MetaValues
    BY <1>1, <1>2, BitIsNat DEF MetaValues
  <1>4. Storable(v)
    BY DEF Storable
  <1>5. Encoding(v) = EncodeMeta(v) /\ \A s : Decoding(s) = DecodeMeta(s.body)
    BY DEF Encoding, Decoding
  <1>6. ComesBack(EncodeMeta(v), DecodeMeta(EncodeMeta(v).body), v)
    BY <1>3, MetaComesBack
  <1>7. QED
    BY <1>4, <1>5, <1>6 DEF Written

LEMMA WrittenShape ==
    ASSUME codec = "shape", NEW v \in ValuesOf
    PROVE  Written(v)
  <1> DEFINE Q == {Absent} \cup {Some(q) : q \in [group_size : Bit, bits : Bit]}
  <1>1. v \in [num_layers : Bit, n_kv_heads : Bit, head_dim : Bit, num_tokens : Bit,
               dtype : Dtypes, layout : Layouts, quant : Q]
    BY DEF ValuesOf
  <1>2. Q \subseteq {Absent} \cup {Some(q) : q \in [group_size : Nat, bits : Nat]}
    BY BitIsNat
  <1> HIDE DEF Q
  <1>3. v \in ShapeValues
    BY <1>1, <1>2, BitIsNat DEF ShapeValues
  <1>4. Storable(v)
    BY DEF Storable
  <1>5. Encoding(v) = EncodeShape(v) /\ \A s : Decoding(s) = DecodeShape(s.body)
    BY DEF Encoding, Decoding
  <1>6. ComesBack(EncodeShape(v), DecodeShape(EncodeShape(v).body), v)
    BY <1>3, ShapeComesBack
  <1>7. QED
    BY <1>4, <1>5, <1>6 DEF Written

LEMMA StringsAreText == Strings \subseteq Text
  BY StringsAreUtf8 DEF Text

LEMMA WrittenIdentity ==
    ASSUME codec = "identity", NEW v \in ValuesOf
    PROVE  Written(v)
  <1> DEFINE A == {Absent} \cup {Some(x) : x \in Bit}
  <1>1. v \in [model_fp : Bit, adapter_id : A, prefix_hash : Bit,
               created_at : Bit, tokenizer_version : Bit, model_name : Strings]
    BY DEF ValuesOf
  <1>2. A \subseteq {Absent} \cup {Some(x) : x \in Nat}
    BY BitIsNat
  <1> HIDE DEF A
  <1>3. v \in Identities
    BY <1>1, <1>2, BitIsNat, StringsAreText DEF Identities
  <1>4. Storable(v) <=> Len(v.model_name) < CellValues
    BY DEF Storable
  <1>5. Encoding(v) = EncodeIdentity(v) /\ \A s : Decoding(s) = DecodeIdentity(s.body)
    BY DEF Encoding, Decoding
  <1>6. CASE Len(v.model_name) < CellValues
    <2>1. ComesBack(EncodeIdentity(v), DecodeIdentity(EncodeIdentity(v).body), v)
      BY <1>3, <1>6, IdentityComesBack
    <2>2. QED
      BY <1>4, <1>5, <1>6, <2>1 DEF Written
  <1>7. CASE ~(Len(v.model_name) < CellValues)
    <2>1. Len(v.model_name) \in Nat
      <3>1. v.model_name \in Text
        BY <1>3 DEF Identities
      <3>2. QED
        BY <3>1, TextIsCells
    <2>2. Len(v.model_name) >= CellValues
      BY <1>7, <2>1, CellsAreFields
    <2>3. EncodeIdentity(v) = Malformed
      BY <2>2 DEF EncodeIdentity
    <2>4. ~Storable(v) /\ Encoding(v) = Malformed
      BY <1>4, <1>5, <1>7, <2>3
    <2>5. QED
      BY <2>4, Zenon DEF Written
  <1>8. QED
    BY <1>6, <1>7

LEMMA WrittenTags ==
    ASSUME codec = "tags", NEW v \in ValuesOf
    PROVE  Written(v)
  <1> DEFINE S == [count : Bit, tag : Strings]
  <1>1. v \in BoundedSeq(S, CellValues)
    BY DEF ValuesOf
  <1>2. S \subseteq TagEntries
    BY BitIsNat, StringsAreText DEF TagEntries
  <1> HIDE DEF S
  <1>3. v \in Seq(S) /\ Len(v) \in 0 .. CellValues
    BY <1>1, BoundedIsSeq, CellsAreFields
  <1>4. v \in Seq(TagEntries)
    BY <1>2, <1>3, SeqOver
  <1>5. Storable(v) <=> Len(v) < CellValues /\ ShortTags(v)
    BY DEF Storable, ShortTags
  <1>6. Encoding(v) = EncodeTags(v) /\ \A s : Decoding(s) = DecodeTags(s.body)
    BY DEF Encoding, Decoding
  <1>7. CASE ~ShortTags(v)
    <2>1. EncodeTags(v) = Malformed
      BY <1>4, <1>7, TagsEncoded
    <2>2. ~Storable(v) /\ Encoding(v) = Malformed
      BY <1>5, <1>6, <1>7, <2>1, Zenon
    <2>3. QED
      BY <2>2, Zenon DEF Written
  <1>8. CASE ShortTags(v) /\ Len(v) = CellValues
    <2>1. EncodeTags(v).kind = "ok" /\ DecodeTags(EncodeTags(v).body) = Malformed
      BY <1>4, <1>8, CutTagCountIsRefused
    <2>2. ~(Len(v) < CellValues)
      BY <1>8, CellsAreFields
    <2>3. QED
      BY <1>5, <1>6, <2>1, <2>2 DEF Written
  <1>9. CASE ShortTags(v) /\ Len(v) < CellValues
    <2>1. ComesBack(EncodeTags(v), DecodeTags(EncodeTags(v).body), v)
      BY <1>4, <1>9, TagsComeBack
    <2>2. QED
      BY <1>5, <1>6, <1>9, <2>1 DEF Written
  <1>10. Len(v) < CellValues \/ Len(v) = CellValues
    BY <1>3, CellsAreFields
  <1>11. QED
    BY <1>7, <1>8, <1>9, <1>10

LEMMA WrittenCentroids ==
    ASSUME codec = "centroids", NEW v \in ValuesOf
    PROVE  Written(v)
  <1> DEFINE S == [cluster_size : Bit, vector : Vectors]
             T == BoundedSeq(S, CellValues)
             n == Len(v.centroids)
  <1>1. v \in [dim : Field, centroids : T] /\ n * EntrySize(v.dim) < CellWord
    BY DEF ValuesOf
  <1>2. S \subseteq Centroid
    BY BitIsNat, VectorsAreCells DEF Centroid
  <1> HIDE DEF S
  <1>3. v.centroids \in Seq(S) /\ Len(v.centroids) \in 0 .. CellValues
    BY <1>1, BoundedIsSeq, CellsAreFields
  <1>4. v.centroids \in Seq(Centroid)
    BY <1>2, <1>3, SeqOver
  <1>5. v \in Sagas
    <2>1. v.dim \in Nat
      BY <1>1, CellsAreFields DEF Field
    <2> HIDE DEF T
    <2>2. v = [dim |-> v.dim, centroids |-> v.centroids]
      BY <1>1
    <2>3. QED
      BY <1>4, <2>1, <2>2 DEF Sagas
  <1>6. n * (1 + v.dim) < CellWord
    BY <1>1 DEF EntrySize
  <1>7. Storable(v) <=> n < CellValues /\ OfItsDim(v)
    BY DEF Storable, OfItsDim
  <1>8. Encoding(v) = EncodeCentroids(v) /\ \A s : Decoding(s) = DecodeCentroids(s.body, s.meta)
    BY DEF Encoding, Decoding
  <1>9. n < CellValues \/ n = CellValues
    BY <1>3, CellsAreFields
  <1>10. CASE ~OfItsDim(v)
    <2>1. EncodeCentroids(v) = Malformed
      BY <1>10 DEF EncodeCentroids, OfItsDim
    <2>2. ~Storable(v) /\ Encoding(v) = Malformed
      BY <1>7, <1>8, <1>10, <2>1, Zenon
    <2>3. QED
      BY <2>2, Zenon DEF Written
  <1>11. CASE OfItsDim(v) /\ n = CellValues
    <2>1. EncodeCentroids(v).kind = "ok"
          /\ DecodeCentroids(EncodeCentroids(v).body, EncodeCentroids(v).meta) = Malformed
      BY <1>5, <1>11, CutCountIsRefused
    <2>2. ~(n < CellValues)
      BY <1>11, CellsAreFields
    <2> HIDE DEF n
    <2>3. QED
      BY <1>7, <1>8, <2>1, <2>2 DEF Written
  <1>12. CASE OfItsDim(v) /\ n < CellValues
    <2>1. ComesBack(EncodeCentroids(v),
                    DecodeCentroids(EncodeCentroids(v).body, EncodeCentroids(v).meta), v)
      BY <1>5, <1>6, <1>12, CentroidsComeBack
    <2> HIDE DEF n
    <2>2. QED
      BY <1>7, <1>8, <1>12, <2>1 DEF Written
  <1>13. QED
    BY <1>9, <1>10, <1>11, <1>12

LEMMA AllWritten ==
    ASSUME codec \in Codecs, NEW v \in ValuesOf
    PROVE  Written(v)
  BY WrittenHeader, WrittenMeta, WrittenTags, WrittenCentroids, WrittenIdentity, WrittenShape
     DEF Codecs

------------------------------------------------------------------------------
(***************************************************************************)
(* What the decoder under test makes of sections of other writers.         *)
(***************************************************************************)
ForeignTyped(s) ==
    /\ s.kind = "ok" /\ s.body \in Seq(Nat)
    /\ IF codec = "centroids" THEN s.meta \in [dim : Field, count : Field] ELSE s.meta = <<>>
    /\ codec = "tags" => s.body \in Seq(Field)
    /\ codec = "identity" => (Len(s.body) >= Fixed => s.body[Fixed] < CellValues)

\* All but the centroids have no other section to describe them.
LEMMA CellsAreTyped ==
    ASSUME codec \in Codecs, codec # "centroids", NEW body \in Seq(Nat),
           codec = "tags" => body \in Seq(Field),
           codec = "identity" => (Len(body) >= Fixed => body[Fixed] < CellValues)
    PROVE  ForeignTyped(Cells(<<>>, body))
  <1> DEFINE s == Cells(<<>>, body)
  <1>1. s.kind = "ok" /\ s.meta = <<>> /\ s.body = body
    BY Kinds
  <1> HIDE DEF s
  <1>2. ForeignTyped(s)
    BY <1>1 DEF ForeignTyped
  <1>3. QED
    BY <1>2 DEF s

LEMMA FieldIsNat == Field \subseteq Nat /\ \A x \in Field : x < CellValues
  BY CellsAreFields DEF Field

LEMMA ForeignHeader ==
    ASSUME codec = "header", NEW s \in ForeignOf
    PROVE  ForeignTyped(s)
  <1> DEFINE M == Bit
             F == 0 .. 5
             A == Bit
             B == Bit
             O == {0, HeaderLen}
             R == Bit
             Rests == {<<0, 1, 1, 0, 1, 0, 1, 0, 0, 1, 0, 1, 1>>, <<1, 0, 0, 1, 0, 1, 0>>}
             X == {Prefixes(<<magic, format, a, 1, 0, b, count, offset, reserved>> \o rest) :
                     magic \in M, format \in F, a \in A, b \in B, count \in Field,
                     offset \in O, reserved \in R, rest \in Rests}
  <1>1. ForeignOf = {Cells(<<>>, p) : p \in UNION X}
    BY DEF ForeignOf
  <1>2. \A rest \in Rests : rest \in Seq(Nat)
    <2> DEFINE one == <<0, 1, 1, 0, 1, 0, 1, 0, 0, 1, 0, 1, 1>>
               other == <<1, 0, 0, 1, 0, 1, 0>>
    <2>1. one \in Seq(Nat) /\ other \in Seq(Nat)
      OBVIOUS
    <2>2. Rests = {one, other}
      OBVIOUS
    <2> HIDE DEF Rests, one, other
    <2>3. QED
      BY <2>1, <2>2
  <1>3. /\ M \subseteq Nat /\ F \subseteq Nat /\ A \subseteq Nat
        /\ B \subseteq Nat /\ O \subseteq Nat /\ R \subseteq Nat
    BY BitIsNat DEF HeaderLen
  <1> HIDE DEF M, F, A, B, O, R, Rests, X
  <1>4. PICK y \in X : \E p \in y : s = Cells(<<>>, p)
    BY <1>1
  <1>5. PICK p \in y : s = Cells(<<>>, p)
    BY <1>4
  <1>6. PICK magic \in M, format \in F, a \in A, b \in B, count \in Field,
             offset \in O, reserved \in R, rest \in Rests :
             y = Prefixes(<<magic, format, a, 1, 0, b, count, offset, reserved>> \o rest)
    BY SMTT(60) DEF X
  <1> DEFINE head == <<magic, format, a, 1, 0, b, count, offset, reserved>>
             all == head \o rest
  <1>7. head \in Seq(Nat)
    BY <1>3, FieldIsNat
  <1>8. all \in Seq(Nat)
    <2> HIDE DEF head
    <2>1. QED
      BY <1>2, <1>7, ConcatProperties
  <1>9. p \in Prefixes(all)
    BY <1>6
  <1> HIDE DEF all
  <1>10. p \in Seq(Nat)
    BY <1>8, <1>9, PrefixIs
  <1>11. QED
    BY <1>5, <1>10, CellsAreTyped DEF Codecs

LEMMA ForeignMeta ==
    ASSUME codec = "meta", NEW s \in ForeignOf
    PROVE  ForeignTyped(s)
  <1> DEFINE A == Bit
             B == Bit
             R == Bit
             X == {Prefixes(<<a, b, 0, 1, count, reserved, 0>>) :
                     a \in A, b \in B, count \in Field, reserved \in R}
  <1>1. ForeignOf = {Cells(<<>>, p) : p \in UNION X}
    BY DEF ForeignOf
  <1>2. A \subseteq Nat /\ B \subseteq Nat /\ R \subseteq Nat
    BY BitIsNat
  <1> HIDE DEF A, B, R, X
  <1>3. PICK y \in X : \E p \in y : s = Cells(<<>>, p)
    BY <1>1
  <1>4. PICK p \in y : s = Cells(<<>>, p)
    BY <1>3
  <1>5. PICK a \in A, b \in B, count \in Field, reserved \in R :
             y = Prefixes(<<a, b, 0, 1, count, reserved, 0>>)
    BY DEF X
  <1> DEFINE all == <<a, b, 0, 1, count, reserved, 0>>
  <1>6. all \in Seq(Nat) /\ p \in Prefixes(all)
    BY <1>2, <1>5, FieldIsNat
  <1> HIDE DEF all
  <1>7. p \in Seq(Nat)
    BY <1>6, PrefixIs
  <1>8. QED
    BY <1>4, <1>7, CellsAreTyped DEF Codecs

LEMMA ForeignShape ==
    ASSUME codec = "shape", NEW s \in ForeignOf
    PROVE  ForeignTyped(s)
  <1> DEFINE A == Bit
             D == 0 .. 5
             L == 0 .. 3
             G == Bit
             X == {Prefixes(<<1, 0, a, 1, dtype, layout, group, 1, 0>>) :
                     a \in A, dtype \in D, layout \in L, group \in G}
  <1>1. ForeignOf = {Cells(<<>>, p) : p \in UNION X}
    BY DEF ForeignOf
  <1>2. A \subseteq Nat /\ D \subseteq Nat /\ L \subseteq Nat /\ G \subseteq Nat
    BY BitIsNat
  <1> HIDE DEF A, D, L, G, X
  <1>3. PICK y \in X : \E p \in y : s = Cells(<<>>, p)
    BY <1>1
  <1>4. PICK p \in y : s = Cells(<<>>, p)
    BY <1>3
  <1>5. PICK a \in A, dtype \in D, layout \in L, group \in G :
             y = Prefixes(<<1, 0, a, 1, dtype, layout, group, 1, 0>>)
    BY DEF X
  <1> DEFINE all == <<1, 0, a, 1, dtype, layout, group, 1, 0>>
  <1>6. all \in Seq(Nat) /\ p \in Prefixes(all)
    BY <1>2, <1>5
  <1> HIDE DEF all
  <1>7. p \in Seq(Nat)
    BY <1>6, PrefixIs
  <1>8. QED
    BY <1>4, <1>7, CellsAreTyped DEF Codecs

LEMMA ForeignTags ==
    ASSUME codec = "tags", NEW s \in ForeignOf
    PROVE  ForeignTyped(s)
  <1>1. s \in {Cells(<<>>, p) : p \in BoundedSeq(Field, MaxCells)}
    BY DEF ForeignOf
  <1>2. PICK p \in BoundedSeq(Field, MaxCells) : s = Cells(<<>>, p)
    BY <1>1
  <1>3. p \in Seq(Field)
    BY BoundedIsSeq, CellsAreFields
  <1>4. p \in Seq(Nat)
    BY <1>3, FieldIsNat, SeqOver
  <1>5. QED
    BY <1>2, <1>3, <1>4, CellsAreTyped DEF Codecs

LEMMA ForeignCentroids ==
    ASSUME codec = "centroids", NEW s \in ForeignOf
    PROVE  ForeignTyped(s)
  <1> DEFINE n == CellWord - 1
             all == [k \in 1 .. n |-> k]
  <1>1. s \in {Cells(meta, p) : meta \in [dim : Field, count : Field], p \in Prefixes(all)}
    BY DEF ForeignOf
  <1>2. n \in Nat
    BY CellsAreFields
  <1> HIDE DEF n
  <1>3. all \in Seq(Nat)
    <2>1. all = [k \in 1 .. n |-> all[k]] /\ \A k \in 1 .. n : all[k] \in Nat
      OBVIOUS
    <2> HIDE DEF all
    <2>2. QED
      BY <1>2, <2>1, IsASeq
  <1> HIDE DEF all
  <1>4. PICK meta \in [dim : Field, count : Field], p \in Prefixes(all) : s = Cells(meta, p)
    BY <1>1
  <1>5. p \in Seq(Nat)
    BY <1>3, PrefixIs
  <1>6. s.kind = "ok" /\ s.meta = meta /\ s.body = p
    BY <1>4 DEF Cells
  <1>7. QED
    BY <1>5, <1>6 DEF ForeignTyped

LEMMA ForeignIdentity ==
    ASSUME codec = "identity", NEW s \in ForeignOf
    PROVE  ForeignTyped(s)
  <1> DEFINE A == Bit
             B == Bit
             C == Bit
             Rests == BoundedSeq(Field, 3)
             X == {Prefixes(<<a, flag, b, c, 0, 1, n>> \o rest) :
                     a \in A, flag \in Field, b \in B, c \in C, n \in Field, rest \in Rests}
  <1>1. ForeignOf = {Cells(<<>>, p) : p \in UNION X}
    BY DEF ForeignOf
  <1>2. \A rest \in Rests : rest \in Seq(Nat)
    <2> SUFFICES ASSUME NEW rest \in Rests PROVE rest \in Seq(Nat)
      OBVIOUS
    <2>1. rest \in Seq(Field)
      BY BoundedIsSeq
    <2>2. QED
      BY <2>1, FieldIsNat, SeqOver
  <1>3. A \subseteq Nat /\ B \subseteq Nat /\ C \subseteq Nat
    BY BitIsNat
  <1> HIDE DEF A, B, C, Rests, X
  <1>4. PICK y \in X : \E p \in y : s = Cells(<<>>, p)
    BY <1>1
  <1>5. PICK p \in y : s = Cells(<<>>, p)
    BY <1>4
  <1>6. PICK a \in A, flag \in Field, b \in B, c \in C, n \in Field, rest \in Rests :
             y = Prefixes(<<a, flag, b, c, 0, 1, n>> \o rest)
    BY DEF X
  <1> DEFINE head == <<a, flag, b, c, 0, 1, n>>
             all == head \o rest
  <1>7. head \in Seq(Nat) /\ Len(head) = 7 /\ head[7] = n
    BY <1>3, FieldIsNat
  <1>8. p \in Prefixes(all)
    BY <1>6
  <1> HIDE DEF head
  <1>9. all \in Seq(Nat)
    BY <1>2, <1>7, Joined
  <1>10. \A i \in 1 .. Len(head) : all[i] = head[i]
    BY <1>2, <1>7, Joined, ZenonT(60)
  <1> HIDE DEF all
  <1>11. p \in Seq(Nat)
    BY <1>8, <1>9, PrefixIs
  <1>12. \A i \in 1 .. Len(p) : p[i] = all[i]
    BY <1>8, <1>9, PrefixIs
  <1>13. Len(p) >= Fixed => p[Fixed] < CellValues
    <2> SUFFICES ASSUME Len(p) >= 7 PROVE p[7] < CellValues
      BY DEF Fixed
    <2>1. 7 \in 1 .. Len(p)
      BY <1>11
    <2>2. p[7] = n
      BY <1>7, <1>10, <1>12, <2>1, SMTT(60)
    <2>3. QED
      BY <2>2, FieldIsNat
  <1>14. QED
    BY <1>5, <1>11, <1>13, CellsAreTyped DEF Codecs

LEMMA AllForeign ==
    ASSUME codec \in Codecs, NEW s \in ForeignOf
    PROVE  ForeignTyped(s)
  BY ForeignHeader, ForeignMeta, ForeignTags, ForeignCentroids, ForeignIdentity, ForeignShape
     DEF Codecs

\* What the decoder makes of them: one encoding of what it returns, and no
\* panic but that of the centroids.
ReadRight(s) ==
    /\ Decoding(s) = Panics =>
          codec = "centroids" /\ s.meta.count * EntrySize(s.meta.dim) >= CellWord
    /\ Decoding(s).kind = "ok" =>
          Canonical(Encoding(Decoding(s).is), s.meta, s.body, Unread(Decoding(s).is),
                    codec \in {"header", "identity"})

\* A decoder that refuses or returns does not panic.
LEMMA NoPanic ==
    ASSUME NEW x, x = Malformed \/ (\E y : x = Decoded(y))
                  \/ x = Invalid("Truncated") \/ x = Invalid("MagicMismatch")
                  \/ x = Invalid("UnknownFormat")
    PROVE  x # Panics
  <1>1. Malformed # Panics
    BY DEF Malformed, Panics
  <1>2. \A y : Decoded(y) # Panics
    BY DEF Decoded, Panics
  <1>3. /\ Invalid("Truncated") # Panics /\ Invalid("MagicMismatch") # Panics
        /\ Invalid("UnknownFormat") # Panics
    BY DEF Invalid, Panics
  <1>4. QED
    BY <1>1, <1>2, <1>3

LEMMA ReadHeader ==
    ASSUME codec = "header", NEW s, ForeignTyped(s)
    PROVE  ReadRight(s)
  <1> DEFINE buf == s.body
             x == DecodeHeader(buf)
  <1>1. buf \in Seq(Nat) /\ s.meta = <<>>
    BY DEF ForeignTyped
  <1>2. Decoding(s) = x /\ \A v : Encoding(v) = EncodeHeader(v)
    BY DEF Decoding, Encoding
  <1>3. \A v : Unread(v) = {HeaderLen + k * EntryLen : k \in 0 .. Len(v.sections)}
    BY DEF Unread
  <1>4. x # Panics
    <2>1. x = Malformed \/ (\E y : x = Decoded(y)) \/ x = Invalid("Truncated")
          \/ x = Invalid("MagicMismatch") \/ x = Invalid("UnknownFormat")
      BY DEF DecodeHeader
    <2> HIDE DEF x
    <2>2. QED
      BY <2>1, NoPanic
  <1>5. x.kind = "ok" =>
           Canonical(EncodeHeader(x.is), <<>>, buf,
                     {HeaderLen + k * EntryLen : k \in 0 .. Len(x.is.sections)}, TRUE)
    BY <1>1, HeaderIsEncoding
  <1> HIDE DEF x
  <1>6. QED
    BY <1>1, <1>2, <1>3, <1>4, <1>5 DEF ReadRight

LEMMA ReadMeta ==
    ASSUME codec = "meta", NEW s, ForeignTyped(s)
    PROVE  ReadRight(s)
  <1> DEFINE buf == s.body
             x == DecodeMeta(buf)
  <1>1. buf \in Seq(Nat) /\ s.meta = <<>>
    BY DEF ForeignTyped
  <1>2. Decoding(s) = x /\ \A v : Encoding(v) = EncodeMeta(v)
    BY DEF Decoding, Encoding
  <1>3. (codec \in {"header", "identity"}) = FALSE /\ \A v : Unread(v) = {MetaLen}
    BY DEF Unread
  <1>4. x # Panics
    <2>1. x = Malformed \/ \E y : x = Decoded(y)
      BY DEF DecodeMeta
    <2> HIDE DEF x
    <2>2. QED
      BY <2>1, NoPanic
  <1>5. x.kind = "ok" => Canonical(EncodeMeta(x.is), <<>>, buf, {MetaLen}, FALSE)
    BY <1>1, MetaIsEncoding
  <1> HIDE DEF x
  <1>6. QED
    BY <1>1, <1>2, <1>3, <1>4, <1>5 DEF ReadRight

LEMMA ReadShape ==
    ASSUME codec = "shape", NEW s, ForeignTyped(s)
    PROVE  ReadRight(s)
  <1> DEFINE buf == s.body
             x == DecodeShape(buf)
  <1>1. buf \in Seq(Nat) /\ s.meta = <<>>
    BY DEF ForeignTyped
  <1>2. Decoding(s) = x /\ \A v : Encoding(v) = EncodeShape(v)
    BY DEF Decoding, Encoding
  <1>3. (codec \in {"header", "identity"}) = FALSE /\ \A v : Unread(v) = {}
    BY DEF Unread
  <1>4. x # Panics
    <2>1. x = Malformed \/ \E y : x = Decoded(y)
      BY DEF DecodeShape
    <2> HIDE DEF x
    <2>2. QED
      BY <2>1, NoPanic
  <1>5. x.kind = "ok" => Canonical(EncodeShape(x.is), <<>>, buf, {}, FALSE)
    BY <1>1, ShapeIsEncoding
  <1> HIDE DEF x
  <1>6. QED
    BY <1>1, <1>2, <1>3, <1>4, <1>5 DEF ReadRight

LEMMA ReadTags ==
    ASSUME codec = "tags", NEW s, ForeignTyped(s)
    PROVE  ReadRight(s)
  <1> DEFINE buf == s.body
             x == DecodeTags(buf)
  <1>1. buf \in Seq(Field) /\ s.meta = <<>>
    BY DEF ForeignTyped
  <1>2. Decoding(s) = x /\ \A v : Encoding(v) = EncodeTags(v)
    BY DEF Decoding, Encoding
  <1>3. (codec \in {"header", "identity"}) = FALSE /\ \A v : Unread(v) = {}
    BY DEF Unread
  <1>4. x # Panics
    <2>1. x = Malformed \/ \E y : x = Decoded(y)
      BY DEF DecodeTags
    <2> HIDE DEF x
    <2>2. QED
      BY <2>1, NoPanic
  <1>5. x.kind = "ok" => Canonical(EncodeTags(x.is), <<>>, buf, {}, FALSE)
    BY <1>1, TagsAreEncoding
  <1> HIDE DEF x
  <1>6. QED
    BY <1>1, <1>2, <1>3, <1>4, <1>5 DEF ReadRight

LEMMA ReadIdentity ==
    ASSUME codec = "identity", NEW s, ForeignTyped(s)
    PROVE  ReadRight(s)
  <1> DEFINE buf == s.body
             x == DecodeIdentity(buf)
  <1>1. buf \in Seq(Nat) /\ s.meta = <<>> /\ (Len(buf) >= Fixed => buf[Fixed] < CellValues)
    BY DEF ForeignTyped
  <1>2. Decoding(s) = x /\ \A v : Encoding(v) = EncodeIdentity(v)
    BY DEF Decoding, Encoding
  <1>3. \A v : Unread(v) = IF v.adapter_id.some THEN {} ELSE {3}
    BY DEF Unread
  <1>4. x # Panics
    <2>1. x = Malformed \/ \E y : x = Decoded(y)
      BY DEF DecodeIdentity
    <2> HIDE DEF x
    <2>2. QED
      BY <2>1, NoPanic
  <1>5. x.kind = "ok" =>
           Canonical(EncodeIdentity(x.is), <<>>, buf,
                     IF x.is.adapter_id.some THEN {} ELSE {3}, TRUE)
    BY <1>1, IdentityIsEncoding
  <1> HIDE DEF x
  <1>6. QED
    BY <1>1, <1>2, <1>3, <1>4, <1>5 DEF ReadRight

LEMMA ReadCentroids ==
    ASSUME codec = "centroids", NEW s, ForeignTyped(s)
    PROVE  ReadRight(s)
  <1> DEFINE buf == s.body
             meta == s.meta
             x == DecodeCentroids(buf, meta)
  <1>1. buf \in Seq(Nat) /\ meta \in [dim : Field, count : Field]
    BY DEF ForeignTyped
  <1>2. Decoding(s) = x /\ \A v : Encoding(v) = EncodeCentroids(v)
    BY DEF Decoding, Encoding
  <1>3. (codec \in {"header", "identity"}) = FALSE /\ \A v : Unread(v) = {}
    BY DEF Unread
  <1>4. x = Panics => meta.count * EntrySize(meta.dim) >= CellWord
    <2>1. meta.dim \in Nat /\ meta.count \in Nat
      BY <1>1, FieldIsNat
    <2>2. QED
      BY <1>1, <2>1, CentroidsRead
  <1>5. x.kind = "ok" => Canonical(EncodeCentroids(x.is), meta, buf, {}, FALSE)
    BY <1>1, CentroidsAreEncoding
  <1> HIDE DEF x
  <1>6. QED
    BY <1>2, <1>3, <1>4, <1>5 DEF ReadRight

LEMMA AllRead ==
    ASSUME codec \in Codecs, NEW s, ForeignTyped(s)
    PROVE  ReadRight(s)
  BY ReadHeader, ReadMeta, ReadTags, ReadCentroids, ReadIdentity, ReadShape DEF Codecs

------------------------------------------------------------------------------
(***************************************************************************)
(* The theorems.                                                           *)
(***************************************************************************)

\* The one section of a behaviour: where it came from, and what was made of it.
CodecInv ==
    /\ codec = "blob" \/ codec \in Codecs
    /\ codec = "blob" => section = None
    /\ section = None => decoded = None /\ value = Absent
    /\ value.some \in BOOLEAN
    /\ value.some => value.is \in ValuesOf /\ section = Encoding(value.is)
    /\ section # None /\ ~value.some => ForeignTyped(section)
    /\ section = Malformed => decoded = Malformed
    /\ decoded # None =>
          decoded = IF section = Malformed THEN Malformed ELSE Decoding(section)

LEMMA CodecInitInv == CodecInit => CodecInv
  <1> SUFFICES ASSUME CodecInit PROVE CodecInv
    OBVIOUS
  <1>1. value = Absent /\ section = None /\ decoded = None /\ (codec = "blob" \/ codec \in Codecs)
    BY DEF CodecInit
  <1>2. value.some = FALSE /\ None # Malformed
    BY <1>1 DEF Absent, None, Malformed
  <1>3. QED
    BY <1>1, <1>2 DEF CodecInv

\* Neither the codec nor the build changes while a section is made and read.
LEMMA CodecQuiet ==
    ASSUME UNCHANGED <<vars, codec>>
    PROVE  /\ ValuesOf' = ValuesOf
           /\ \A s : Decoding(s)' = Decoding(s) /\ Encoding(s)' = Encoding(s)
           /\ \A s : ForeignTyped(s)' <=> ForeignTyped(s)
  <1>1. codec' = codec /\ build' = build
    BY DEF vars
  <1>2. ValuesOf' = ValuesOf
    BY <1>1 DEF ValuesOf
  <1>3. \A s : Decoding(s)' = Decoding(s)
    BY <1>1 DEF Decoding, DecodeCentroids
  <1>4. \A s : Encoding(s)' = Encoding(s)
    BY <1>1 DEF Encoding
  <1>5. \A s : ForeignTyped(s)' <=> ForeignTyped(s)
    BY <1>1 DEF ForeignTyped
  <1>6. QED
    BY <1>2, <1>3, <1>4, <1>5

LEMMA CodecNextInv == CodecInv /\ [CodecNext]_<<vars, codecVars>> => CodecInv'
  <1> SUFFICES ASSUME CodecInv, [CodecNext]_<<vars, codecVars>> PROVE CodecInv'
    OBVIOUS
  <1>1. CASE codec = "blob" /\ UNCHANGED codecVars
    <2>1. section = None /\ decoded = None /\ value = Absent
      BY <1>1 DEF CodecInv
    <2>2. codec' = "blob" /\ section' = None /\ decoded' = None /\ value' = Absent
      BY <1>1, <2>1 DEF codecVars
    <2>3. value'.some = FALSE /\ None # Malformed
      BY <2>2 DEF Absent, None, Malformed
    <2>4. QED
      BY <2>2, <2>3 DEF CodecInv
  <1>2. CASE UNCHANGED <<vars, codecVars>>
    <2>1. UNCHANGED <<vars, codec>> /\ value' = value /\ section' = section /\ decoded' = decoded
          /\ codec' = codec
      BY <1>2 DEF codecVars
    <2>2. ValuesOf' = ValuesOf /\ \A s : Decoding(s)' = Decoding(s)
      BY <2>1, CodecQuiet
    <2>3. \A s : Encoding(s)' = Encoding(s)
      BY <2>1, CodecQuiet
    <2>4. \A s : ForeignTyped(s)' <=> ForeignTyped(s)
      BY <2>1, CodecQuiet
    <2>5. QED
      BY <2>1, <2>2, <2>3, <2>4 DEF CodecInv
  <1>3. CASE codec # "blob" /\ EncodeSection
    <2>1. PICK v \in ValuesOf :
             /\ value' = Some(v) /\ section' = Encoding(v)
             /\ decoded' = IF section' = Malformed THEN Malformed ELSE None
      BY <1>3 DEF EncodeSection
    <2>2. UNCHANGED <<vars, codec>> /\ codec' = codec /\ codec \in Codecs
      BY <1>3 DEF EncodeSection, CodecInv
    <2>3. value'.some /\ value'.is = v
      BY <2>1 DEF Some
    <2>4. section' # None
      <3>1. Written(v)
        BY <2>2, AllWritten
      <3>2. Encoding(v) = Malformed \/ Encoding(v).kind = "ok"
        BY <3>1 DEF Written, ComesBack
      <3>3. None.kind = "none" /\ Malformed.kind = "Malformed"
        BY DEF None, Malformed
      <3>4. QED
        BY <2>1, <3>2, <3>3
    <2>5. ValuesOf' = ValuesOf /\ Encoding(v)' = Encoding(v)
      BY <2>2, CodecQuiet
    <2>6. /\ decoded' # None => decoded' = Malformed /\ section' = Malformed
          /\ section' = Malformed => decoded' = Malformed
      BY <2>1
    <2>7. value'.is \in ValuesOf' /\ section' = Encoding(value.is)'
      BY <1>3, <2>1, <2>2, <2>3, <2>5
    <2>8. QED
      BY <1>3, <2>2, <2>3, <2>4, <2>6, <2>7 DEF CodecInv
  <1>4. CASE codec # "blob" /\ ForeignSection
    <2>1. section = None /\ section' \in ForeignOf /\ UNCHANGED <<vars, codec>>
          /\ codec' = codec /\ value' = value /\ decoded' = decoded /\ codec \in Codecs
          /\ decoded = None /\ value = Absent
      BY <1>4 DEF ForeignSection, CodecInv
    <2>2. value'.some = FALSE
      BY <2>1 DEF Absent
    <2> DEFINE s == section'
    <2>3. ForeignTyped(s)
      BY <2>1, AllForeign
    <2>4. s # None /\ s # Malformed
      BY <2>3 DEF ForeignTyped, None, Malformed
    <2>5. ForeignTyped(section)'
      BY <2>1, <2>3 DEF ForeignTyped
    <2>6. QED
      BY <1>4, <2>1, <2>2, <2>4, <2>5 DEF CodecInv
  <1>5. CASE codec # "blob" /\ DecodeSection
    <2>1. section # None /\ decoded = None /\ decoded' = Decoding(section)
          /\ UNCHANGED <<vars, codec>> /\ codec' = codec /\ value' = value /\ section' = section
      BY <1>5 DEF DecodeSection
    <2>2. ValuesOf' = ValuesOf /\ \A s : Decoding(s)' = Decoding(s)
      BY <2>1, CodecQuiet
    <2>3. \A s : Encoding(s)' = Encoding(s)
      BY <2>1, CodecQuiet
    <2>4. \A s : ForeignTyped(s)' <=> ForeignTyped(s)
      BY <2>1, CodecQuiet
    <2>5. section # Malformed
      BY <2>1 DEF CodecInv, Malformed, None
    <2>6. QED
      BY <1>5, <2>1, <2>2, <2>3, <2>4, <2>5 DEF CodecInv
  <1>6. QED
    BY <1>1, <1>2, <1>3, <1>4, <1>5 DEF CodecNext

\* What was made of the section.
LEMMA CodecOutcome ==
    ASSUME CodecInv, decoded # None
    PROVE  /\ codec \in Codecs
           /\ value.some =>
                 IF Storable(value.is)
                   THEN decoded = Decoded(value.is) /\ section = Encoding(value.is) /\ section.kind = "ok"
                   ELSE decoded = Malformed
           /\ ~value.some => decoded = Decoding(section) /\ ReadRight(section)
  <1>1. codec \in Codecs
    BY DEF CodecInv
  <1>2. decoded = IF section = Malformed THEN Malformed ELSE Decoding(section)
    BY DEF CodecInv
  <1>3. Malformed.kind = "Malformed"
    BY DEF Malformed
  <1>4. ASSUME value.some
        PROVE  IF Storable(value.is)
                 THEN decoded = Decoded(value.is) /\ section = Encoding(value.is) /\ section.kind = "ok"
                 ELSE decoded = Malformed
    <2>1. section = Encoding(value.is) /\ value.is \in ValuesOf
      BY <1>4 DEF CodecInv
    <2>2. Written(value.is)
      BY <1>1, <2>1, AllWritten
    <2>3. CASE Storable(value.is)
      <3>1. section.kind = "ok" /\ Decoding(section) = Decoded(value.is)
        BY <2>1, <2>2, <2>3 DEF Written, ComesBack
      <3>2. section # Malformed
        BY <1>3, <3>1
      <3>3. QED
        BY <1>2, <2>1, <2>3, <3>1, <3>2
    <2>4. CASE ~Storable(value.is)
      <3>1. section = Malformed \/ Decoding(section) = Malformed
        BY <2>1, <2>2, <2>4 DEF Written
      <3>2. QED
        BY <1>2, <2>4, <3>1
    <2>5. QED
      BY <2>3, <2>4
  <1>5. ASSUME ~value.some PROVE decoded = Decoding(section) /\ ReadRight(section)
    <2>1. ForeignTyped(section)
      BY <1>5 DEF CodecInv
    <2>2. section # Malformed
      BY <1>3, <2>1 DEF ForeignTyped
    <2>3. QED
      BY <1>1, <1>2, <2>1, <2>2, AllRead
  <1>6. QED
    BY <1>1, <1>4, <1>5

\* A section that a writer of this crate made is read back as what it was made
\* of, and what its length fields cannot tell is refused, by writer or reader:
\* for fields of every width and every string and vector.
THEOREM WrittenAlwaysComesBack == CodecSpec => []WrittenComesBack
  <1>1. CodecInv => WrittenComesBack
    BY CodecOutcome DEF WrittenComesBack
  <1>2. QED
    BY <1>1, CodecInitInv, CodecNextInv, PTL DEF CodecSpec

\* What the six decoders accept is, cell for cell, the encoding of what they
\* return, reserved cells aside: nothing in a section has two readings.
THEOREM AcceptedAlwaysEncoding == CodecSpec => []AcceptedIsEncoding
  <1>1. CodecInv => AcceptedIsEncoding
    <2> SUFFICES ASSUME CodecInv, decoded.kind = "ok" PROVE AcceptedIsEncoding
      BY DEF AcceptedIsEncoding
    <2> DEFINE canonical == Encoding(decoded.is)
    <2>1. decoded # None /\ decoded # Malformed
      <3>1. None.kind = "none" /\ Malformed.kind = "Malformed"
        BY DEF None, Malformed
      <3>2. QED
        BY <3>1
    <2>2. CASE value.some
      <3>1. decoded = Decoded(value.is) /\ section = Encoding(value.is) /\ section.kind = "ok"
        BY <2>1, <2>2, CodecOutcome
      <3>2. decoded.is = value.is
        BY <3>1 DEF Decoded
      <3>3. canonical = section
        BY <3>1, <3>2
      <3>4. codec \in {"header", "identity"} => Len(canonical.body) <= Len(section.body)
        <4>1. Written(value.is) /\ Storable(value.is)
          BY <2>1, <2>2, AllWritten, CodecOutcome DEF CodecInv
        <4>2. Encoding(value.is).body \in Seq(Nat)
          BY <4>1 DEF Written, ComesBack
        <4>3. Len(section.body) \in Nat
          BY <3>1, <4>2
        <4>4. QED
          BY <3>3, <4>3
      <3> HIDE DEF canonical
      <3>5. QED
        BY <3>1, <3>3, <3>4 DEF AcceptedIsEncoding, canonical
    <2>3. CASE ~value.some
      <3>1. decoded = Decoding(section) /\ ReadRight(section)
        BY <2>1, <2>3, CodecOutcome
      <3>2. Canonical(canonical, section.meta, section.body, Unread(decoded.is),
                      codec \in {"header", "identity"})
        BY <3>1 DEF ReadRight
      <3> HIDE DEF canonical
      <3>3. QED
        BY <3>2 DEF Canonical, AcceptedIsEncoding, canonical
    <2>4. value.some \in BOOLEAN
      BY DEF CodecInv
    <2>5. QED
      BY <2>2, <2>3, <2>4
  <1>2. QED
    BY <1>1, CodecInitInv, CodecNextInv, PTL DEF CodecSpec

\* No decoder panics, in either build, but at a centroid count and dimension
\* whose product exceeds usize.
THEOREM CodecsPanicOnlyAtOverflow == CodecSpec => []PanicsAtOverflow
  <1>1. CodecInv => PanicsAtOverflow
    <2> SUFFICES ASSUME CodecInv, decoded = Panics PROVE PanicsAtOverflow
      BY DEF PanicsAtOverflow
    <2>1. decoded # None /\ Panics # Malformed /\ \A x : Panics # Decoded(x)
      BY DEF Panics, None, Malformed, Decoded
    <2>2. ~value.some
      BY <2>1, CodecOutcome
    <2>3. decoded = Decoding(section) /\ ReadRight(section)
      BY <2>1, <2>2, CodecOutcome
    <2>4. QED
      BY <2>3 DEF ReadRight, PanicsAtOverflow
  <1>2. QED
    BY <1>1, CodecInitInv, CodecNextInv, PTL DEF CodecSpec

\* With the blob under test, the steps are KvShape's; with another section, no
\* blob is made.
THEOREM BlobsAreKvShape == CodecSpec => (codec = "blob" => Spec)
  <1> DEFINE Blob == codec = "blob"
  <1>1. CodecInit /\ Blob => Init
    BY DEF CodecInit, Codecs
  <1>2. Blob /\ [CodecNext]_<<vars, codecVars>> => Blob'
    BY DEF CodecNext, codecVars
  <1>3. Blob /\ [CodecNext]_<<vars, codecVars>> => [Next]_vars
    BY DEF CodecNext, codecVars
  <1> HIDE DEF Blob
  <1>4. CodecSpec => (Blob => Spec)
    BY <1>1, <1>2, <1>3, PTL DEF CodecSpec, Spec
  <1>5. QED
    BY <1>4 DEF Blob

\* What was proved of blobs holds beside the other codecs.
THEOREM BlobsAlwaysKept ==
    CodecSpec =>
        [](AcceptedFits /\ LeftoversShareGroups /\ WrittenIsRead /\ AcceptedIsCanonical)
  <1> DEFINE Kept == AcceptedFits /\ LeftoversShareGroups /\ WrittenIsRead /\ AcceptedIsCanonical
             NoBlob == codec # "blob" /\ outcome = None
  <1>1. CodecInit => codec = "blob" \/ NoBlob
    BY DEF CodecInit, Codecs
  <1>2. NoBlob /\ [CodecNext]_<<vars, codecVars>> => NoBlob'
    BY DEF CodecNext, codecVars, vars, EncodeSection, ForeignSection, DecodeSection
  <1>3. NoBlob => Kept
    BY DEF None, AcceptedFits, LeftoversShareGroups, WrittenIsRead, AcceptedIsCanonical
  <1>4. Spec => []Kept
    BY AcceptedAlwaysFits, LeftoversAlwaysShare, WrittenAlwaysRead, AcceptedAlwaysCanonical, PTL
  <1>5. CodecSpec => (codec = "blob" => Spec)
    BY BlobsAreKvShape
  <1>6. QED
    BY <1>1, <1>2, <1>3, <1>4, <1>5, PTL DEF CodecSpec

------------------------------------------------------------------------------
(***************************************************************************)
(* The same of all values and all sections, not only of those a behaviour  *)
(* of CodecSpec picks: fields of any size, tables of any length.           *)
(***************************************************************************)

\* Every value comes back from its encoding, whatever its fields hold and
\* however many entries it has, if its lengths and counts can be told.
THEOREM EveryValueComesBack ==
    /\ \A h \in Headers : ComesBack(EncodeHeader(h), DecodeHeader(EncodeHeader(h).body), h)
    /\ \A m \in MetaValues : ComesBack(EncodeMeta(m), DecodeMeta(EncodeMeta(m).body), m)
    /\ \A s \in ShapeValues : ComesBack(EncodeShape(s), DecodeShape(EncodeShape(s).body), s)
    /\ \A id \in Identities :
          Len(id.model_name) < CellValues =>
              ComesBack(EncodeIdentity(id), DecodeIdentity(EncodeIdentity(id).body), id)
    /\ \A tags \in Seq(TagEntries) :
          ShortTags(tags) /\ Len(tags) < CellValues =>
              ComesBack(EncodeTags(tags), DecodeTags(EncodeTags(tags).body), tags)
    /\ \A saga \in Sagas :
          /\ OfItsDim(saga) /\ Len(saga.centroids) < CellValues
          /\ Len(saga.centroids) * (1 + saga.dim) < CellWord
          => LET e == EncodeCentroids(saga)
             IN ComesBack(e, DecodeCentroids(e.body, e.meta), saga)
  <1>1. \A saga \in Sagas :
          /\ OfItsDim(saga) /\ Len(saga.centroids) < CellValues
          /\ Len(saga.centroids) * (1 + saga.dim) < CellWord
          => LET e == EncodeCentroids(saga)
             IN ComesBack(e, DecodeCentroids(e.body, e.meta), saga)
    BY CentroidsComeBack
  <1>2. \A tags \in Seq(TagEntries) :
          ShortTags(tags) /\ Len(tags) < CellValues =>
              ComesBack(EncodeTags(tags), DecodeTags(EncodeTags(tags).body), tags)
    BY TagsComeBack
  <1>3. \A id \in Identities :
          Len(id.model_name) < CellValues =>
              ComesBack(EncodeIdentity(id), DecodeIdentity(EncodeIdentity(id).body), id)
    BY IdentityComesBack
  <1>4. QED
    BY <1>1, <1>2, <1>3, HeaderComesBack, MetaComesBack, ShapeComesBack

\* A decoder that returns a value was given the encoding of it, whoever made
\* the section: reserved cells, an absent adapter's filler and what follows
\* header and identity aside.  For tags and centroids the cells are fields.
THEOREM EverySectionCanonical ==
    /\ \A buf \in Seq(Nat) :
          /\ DecodeHeader(buf).kind = "ok" =>
                LET v == DecodeHeader(buf).is
                IN Canonical(EncodeHeader(v), <<>>, buf,
                             {HeaderLen + k * EntryLen : k \in 0 .. Len(v.sections)}, TRUE)
          /\ DecodeMeta(buf).kind = "ok" =>
                Canonical(EncodeMeta(DecodeMeta(buf).is), <<>>, buf, {MetaLen}, FALSE)
          /\ DecodeShape(buf).kind = "ok" =>
                Canonical(EncodeShape(DecodeShape(buf).is), <<>>, buf, {}, FALSE)
          /\ \A meta \in [dim : Field, count : Field] :
                DecodeCentroids(buf, meta).kind = "ok" =>
                   Canonical(EncodeCentroids(DecodeCentroids(buf, meta).is), meta, buf, {}, FALSE)
    /\ \A buf \in Seq(Field) :
          /\ DecodeIdentity(buf).kind = "ok" =>
                LET v == DecodeIdentity(buf).is
                IN Canonical(EncodeIdentity(v), <<>>, buf,
                             IF v.adapter_id.some THEN {} ELSE {3}, TRUE)
          /\ DecodeTags(buf).kind = "ok" =>
                Canonical(EncodeTags(DecodeTags(buf).is), <<>>, buf, {}, FALSE)
  <1>1. ASSUME NEW buf \in Seq(Nat), DecodeHeader(buf).kind = "ok"
        PROVE  LET v == DecodeHeader(buf).is
               IN Canonical(EncodeHeader(v), <<>>, buf,
                            {HeaderLen + k * EntryLen : k \in 0 .. Len(v.sections)}, TRUE)
    BY <1>1, HeaderIsEncoding
  <1>2. ASSUME NEW buf \in Seq(Nat), NEW meta \in [dim : Field, count : Field],
               DecodeCentroids(buf, meta).kind = "ok"
        PROVE  Canonical(EncodeCentroids(DecodeCentroids(buf, meta).is), meta, buf, {}, FALSE)
    BY <1>2, CentroidsAreEncoding
  <1>3. ASSUME NEW buf \in Seq(Field), DecodeIdentity(buf).kind = "ok"
        PROVE  LET v == DecodeIdentity(buf).is
               IN Canonical(EncodeIdentity(v), <<>>, buf,
                            IF v.adapter_id.some THEN {} ELSE {3}, TRUE)
    <2>1. buf \in Seq(Nat)
      BY <1>3, FieldIsNat, SeqOver
    <2>2. Len(buf) >= Fixed => buf[Fixed] < CellValues
      <3>1. Fixed \in Nat /\ Fixed >= 1
        BY DEF Fixed
      <3>2. \A i \in 1 .. Len(buf) : buf[i] \in Field
        BY <1>3
      <3>3. Len(buf) >= Fixed => Fixed \in 1 .. Len(buf)
        BY <1>3, <3>1
      <3>4. QED
        BY <3>2, <3>3, FieldIsNat
    <2>3. QED
      BY <1>3, <2>1, <2>2, IdentityIsEncoding
  <1>4. ASSUME NEW buf \in Seq(Field), DecodeTags(buf).kind = "ok"
        PROVE  Canonical(EncodeTags(DecodeTags(buf).is), <<>>, buf, {}, FALSE)
    BY <1>4, TagsAreEncoding
  <1>5. QED
    BY <1>1, <1>2, <1>3, <1>4, MetaIsEncoding, ShapeIsEncoding
===============================================================================
