----------------------------- MODULE SectionCodecs -----------------------------
(***************************************************************************)
(* The encodings of the other parts of a file, beside the blob of KvShape: *)
(* the header with its section table; the meta block, the centroids and    *)
(* the tags of a saga; the identity and the shape of a KV cache.  Each is  *)
(* a sequence of cells: every fixed-width field is one cell of CellValues  *)
(* values, a string one cell for each byte.  usize has 64 bits.            *)
(***************************************************************************)
EXTENDS KvShape

CONSTANTS
    CellValues,   \* the values of a field, 2^32 of u32, 2^16 of u16
    CellWord,     \* usize::MAX + 1 bytes, in cells
    MaxCells,     \* bound: cells of a foreign section
    Strings,      \* tags and model names, longer ones than a length field tells
    Vectors       \* centroid vectors

ASSUME CellsAreFields ==
    /\ CellValues \in Nat /\ CellValues > 2
    /\ CellWord \in Nat \ {0} /\ MaxCells \in Nat

VARIABLES
    codec,     \* the section under test; "blob" is KvShape's
    value,     \* history: what the encoder was given, or Absent
    section,   \* the cells: [meta, body], meta of the section that describes it
    decoded    \* what the encoder refused with or the decoder made of it

codecVars == <<codec, value, section, decoded>>

Codecs == {"header", "meta", "tags", "centroids", "identity", "shape"}
Field == 0 .. CellValues - 1
Decoded(x) == [kind |-> "ok", is |-> x]
Cells(meta, body) == [kind |-> "ok", meta |-> meta, body |-> body]

\* str::from_utf8 on bytes of four kinds.
Ascii == 0
Lead == 1
Continuation == 2
Utf8(s) ==
    \A k \in 1 .. Len(s) :
        /\ s[k] \in {Ascii, Lead, Continuation}
        /\ s[k] = Lead <=> k < Len(s) /\ s[k + 1] = Continuation
        /\ s[k] = Continuation => k > 1

\* A String is UTF-8.
ASSUME StringsAreUtf8 == \A s \in Strings : s \in Seq(0 .. 2) /\ Utf8(s)
ASSUME VectorsAreCells == Vectors \subseteq Seq(Nat)

------------------------------------------------------------------------------
(***************************************************************************)
(* The header: nine fields, the last reserved, then the table, with six    *)
(* fields for each section, the last reserved.                             *)
(***************************************************************************)
HeaderLen == 9
EntryLen == 6
Magic == 1
FormatIds == 1 .. 4
Invalid(kind) == [kind |-> kind]

EncodeEntry(e) == <<e.type_id, e.flags, e.offset, e.length, e.checksum, 0>>

EncodeHeader(h) ==
    Cells(<<>>, <<Magic, h.format, h.version, h.flags, h.created_at, h.body_len,
                  Len(h.sections), HeaderLen, 0>>
                \o FlattenSeq([k \in 1 .. Len(h.sections) |-> EncodeEntry(h.sections[k])]))

EntryAt(buf, off) ==
    [type_id |-> buf[off + 1], flags |-> buf[off + 2], offset |-> buf[off + 3],
     length |-> buf[off + 4], checksum |-> buf[off + 5]]

\* Neither version nor flags, body_len nor the entries are judged here.
DecodeHeader(buf) ==
    IF Len(buf) < HeaderLen THEN Invalid("Truncated")
    ELSE IF buf[1] # Magic THEN Invalid("MagicMismatch")
    ELSE IF buf[2] \notin FormatIds THEN Invalid("UnknownFormat")
    ELSE IF buf[8] # HeaderLen THEN Malformed
    ELSE IF Len(buf) < HeaderLen + buf[7] * EntryLen THEN Invalid("Truncated")
    ELSE Decoded([format |-> buf[2], version |-> buf[3], flags |-> buf[4],
                  created_at |-> buf[5], body_len |-> buf[6],
                  sections |-> [k \in 1 .. buf[7] |->
                                  EntryAt(buf, HeaderLen + (k - 1) * EntryLen)]])

------------------------------------------------------------------------------
(***************************************************************************)
(* The meta block: five fields and a reserved one.                         *)
(***************************************************************************)
MetaLen == 6

EncodeMeta(m) ==
    Cells(<<>>, <<m.tenant_id, m.built_at, m.record_count, m.embedding_dim,
                  m.centroid_count, 0>>)

DecodeMeta(buf) ==
    IF Len(buf) # MetaLen THEN Malformed
    ELSE Decoded([tenant_id |-> buf[1], built_at |-> buf[2], record_count |-> buf[3],
                  embedding_dim |-> buf[4], centroid_count |-> buf[5]])

------------------------------------------------------------------------------
(***************************************************************************)
(* Tags: a u32 count, then for each tag its u32 count, u16 length and bytes. *)
(***************************************************************************)
EncodeTags(entries) ==
    IF \E k \in 1 .. Len(entries) : Len(entries[k].tag) >= CellValues THEN Malformed
    ELSE Cells(<<>>, <<Len(entries) % CellValues>>
            \o FlattenSeq([k \in 1 .. Len(entries) |->
                   <<entries[k].count, Len(entries[k].tag)>> \o entries[k].tag]))

\* One entry read at offset at.cur, or a failure that stays one.
TagAt(buf, at) ==
    LET body == at.cur + 2
        end == body + buf[at.cur + 2]
        tag == SubSeq(buf, body + 1, end)
    IN IF at.ok /\ body <= Len(buf) /\ end <= Len(buf) /\ Utf8(tag)
         THEN [ok |-> TRUE, cur |-> end,
               out |-> Append(at.out, [count |-> buf[at.cur + 1], tag |-> tag])]
         ELSE [at EXCEPT !.ok = FALSE]

\* The state of the loop before each entry, and after the last.
EntriesFrom(buf) ==
    LET at[k \in 1 .. buf[1] + 1] ==
            IF k = 1 THEN [ok |-> TRUE, cur |-> 1, out |-> <<>>] ELSE TagAt(buf, at[k - 1])
    IN at
Entries(buf) == EntriesFrom(buf)[buf[1] + 1]

\* Mutant of DecodeTags: what follows the last entry is not looked at.
DecodeTags_TrailingBytes(buf) ==
    IF Len(buf) < 1 \/ ~Entries(buf).ok THEN Malformed ELSE Decoded(Entries(buf).out)

DecodeTags(buf) ==
    IF Len(buf) < 1 THEN Malformed
    ELSE LET all == Entries(buf)
         IN IF all.ok /\ all.cur = Len(buf) THEN Decoded(all.out) ELSE Malformed

------------------------------------------------------------------------------
(***************************************************************************)
(* Centroids: a u32 and dim f32 each.  write_saga puts dim and the number  *)
(* of centroids, cut to u32, into the meta section; read_saga gives them   *)
(* to the decoder.                                                         *)
(***************************************************************************)
EntrySize(dim) == 1 + dim

EncodeCentroids(saga) ==
    IF \E k \in 1 .. Len(saga.centroids) : Len(saga.centroids[k].vector) # saga.dim
      THEN Malformed
      ELSE Cells([dim |-> saga.dim, count |-> Len(saga.centroids) % CellValues],
                 FlattenSeq([k \in 1 .. Len(saga.centroids) |->
                     <<saga.centroids[k].cluster_size>> \o saga.centroids[k].vector]))

CentroidsOf(buf, meta) ==
    [dim |-> meta.dim,
     centroids |-> [k \in 1 .. meta.count |->
         LET at == (k - 1) * EntrySize(meta.dim)
         IN [cluster_size |-> buf[at + 1], vector |-> SubSeq(buf, at + 2, at + EntrySize(meta.dim))]]]

\* Mutant of DecodeCentroids: the length of the section is not compared.
DecodeCentroids_Unchecked(buf, meta) ==
    LET need == meta.count * EntrySize(meta.dim)
    IN IF need > Len(buf) THEN Panics ELSE Decoded(CentroidsOf(buf, meta))

\* The product overflows usize: a debug build panics; a release build wraps,
\* and where the wrapped length fits, the loop reads past the end.
DecodeCentroids(buf, meta) ==
    LET need == meta.count * EntrySize(meta.dim)
    IN IF need >= CellWord /\ build = "debug" THEN Panics
       ELSE IF Len(buf) # need % CellWord THEN Malformed
       ELSE IF need > Len(buf) THEN Panics
       ELSE Decoded(CentroidsOf(buf, meta))

------------------------------------------------------------------------------
(***************************************************************************)
(* The identity: fixed fields, then the model's name.                      *)
(***************************************************************************)
Fixed == 7
ZeroId == 0

\* Mutant of EncodeIdentity: no filler where there is no adapter.
EncodeIdentity_NoFiller(id) ==
    Cells(<<>>, <<id.model_fp>>
        \o (IF id.adapter_id.some THEN <<1, id.adapter_id.is>> ELSE <<0>>)
        \o <<id.prefix_hash, id.created_at, id.tokenizer_version, Len(id.model_name)>>
        \o id.model_name)

EncodeIdentity(id) ==
    IF Len(id.model_name) >= CellValues THEN Malformed
    ELSE Cells(<<>>, <<id.model_fp>>
            \o (IF id.adapter_id.some THEN <<1, id.adapter_id.is>> ELSE <<0, ZeroId>>)
            \o <<id.prefix_hash, id.created_at, id.tokenizer_version, Len(id.model_name)>>
            \o id.model_name)

DecodeIdentity(buf) ==
    LET name == SubSeq(buf, Fixed + 1, Fixed + buf[Fixed])
    IN IF Len(buf) < Fixed THEN Malformed
       ELSE IF buf[2] \notin {0, 1} THEN Malformed
       ELSE IF Len(buf) < Fixed + buf[Fixed] THEN Malformed
       ELSE IF ~Utf8(name) THEN Malformed
       ELSE Decoded([model_fp |-> buf[1],
                     adapter_id |-> IF buf[2] = 1 THEN Some(buf[3]) ELSE Absent,
                     prefix_hash |-> buf[4], created_at |-> buf[5],
                     tokenizer_version |-> buf[6], model_name |-> name])

------------------------------------------------------------------------------
(***************************************************************************)
(* The shape: six fields, and two more if the cache is quantized.          *)
(***************************************************************************)
Dtypes == 1 .. 4
Layouts == 1 .. 2

EncodeShape(s) ==
    Cells(<<>>, <<s.num_layers, s.n_kv_heads, s.head_dim, s.num_tokens, s.dtype, s.layout>>
                \o (IF s.quant.some THEN <<s.quant.is.group_size, s.quant.is.bits>> ELSE <<>>))

DecodeShape(buf) ==
    IF Len(buf) \notin {6, 8} THEN Malformed
    ELSE IF buf[5] \notin Dtypes \/ buf[6] \notin Layouts THEN Malformed
    ELSE Decoded([num_layers |-> buf[1], n_kv_heads |-> buf[2], head_dim |-> buf[3],
                  num_tokens |-> buf[4], dtype |-> buf[5], layout |-> buf[6],
                  quant |-> IF Len(buf) = 8
                              THEN Some([group_size |-> buf[7], bits |-> buf[8]]) ELSE Absent])

------------------------------------------------------------------------------
Encoding(v) ==
    CASE codec = "header"    -> EncodeHeader(v)
      [] codec = "meta"      -> EncodeMeta(v)
      [] codec = "tags"      -> EncodeTags(v)
      [] codec = "centroids" -> EncodeCentroids(v)
      [] codec = "identity"  -> EncodeIdentity(v)
      [] codec = "shape"     -> EncodeShape(v)

Decoding(s) ==
    CASE codec = "header"    -> DecodeHeader(s.body)
      [] codec = "meta"      -> DecodeMeta(s.body)
      [] codec = "tags"      -> DecodeTags(s.body)
      [] codec = "centroids" -> DecodeCentroids(s.body, s.meta)
      [] codec = "identity"  -> DecodeIdentity(s.body)
      [] codec = "shape"     -> DecodeShape(s.body)

\* Values, from sets as small as keep the cases apart.
Bit == {0, 1}
ValuesOf ==
    CASE codec = "header" ->
           [format : FormatIds, version : Bit, flags : Bit, created_at : Bit, body_len : Bit,
            sections : BoundedSeq([type_id : Bit, flags : {1}, offset : Bit, length : {0},
                                   checksum : Bit], 2)]
      [] codec = "meta" ->
           [tenant_id : Bit, built_at : Bit, record_count : Bit, embedding_dim : Bit,
            centroid_count : Field]
      [] codec = "tags" ->
           BoundedSeq([count : Bit, tag : Strings], CellValues)
      [] codec = "centroids" ->
           {s \in [dim : Field, centroids : BoundedSeq([cluster_size : Bit, vector : Vectors], CellValues)] :
               Len(s.centroids) * EntrySize(s.dim) < CellWord}
      [] codec = "identity" ->
           [model_fp : Bit, adapter_id : {Absent} \cup {Some(x) : x \in Bit}, prefix_hash : Bit,
            created_at : Bit, tokenizer_version : Bit, model_name : Strings]
      [] codec = "shape" ->
           [num_layers : Bit, n_kv_heads : Bit, head_dim : Bit, num_tokens : Bit,
            dtype : Dtypes, layout : Layouts, quant : {Absent} \cup
               {Some(q) : q \in [group_size : Bit, bits : Bit]}]

\* Sections of other writers: any cells, cut off anywhere or followed by more.
ForeignOf ==
    CASE codec = "header" ->
           {Cells(<<>>, s) : s \in UNION {
               Prefixes(<<magic, format, a, 1, 0, b, count, offset, reserved>> \o rest) :
               magic \in Bit, format \in 0 .. 5, a \in Bit, b \in Bit, count \in Field,
               offset \in {0, HeaderLen}, reserved \in Bit,
               rest \in {<<0, 1, 1, 0, 1, 0, 1, 0, 0, 1, 0, 1, 1>>, <<1, 0, 0, 1, 0, 1, 0>>}}}
      [] codec = "meta" ->
           {Cells(<<>>, s) : s \in UNION {Prefixes(<<a, b, 0, 1, count, reserved, 0>>) :
               a \in Bit, b \in Bit, count \in Field, reserved \in Bit}}
      [] codec = "tags" -> {Cells(<<>>, s) : s \in BoundedSeq(Field, MaxCells)}
      [] codec = "centroids" ->
           {Cells(meta, s) : meta \in [dim : Field, count : Field],
                             s \in Prefixes([k \in 1 .. CellWord - 1 |-> k])}
      [] codec = "identity" ->
           {Cells(<<>>, s) : s \in UNION {Prefixes(<<a, flag, b, c, 0, 1, n>> \o rest) :
               a \in Bit, flag \in Field, b \in Bit, c \in Bit, n \in Field,
               rest \in BoundedSeq(Field, 3)}}
      [] codec = "shape" ->
           {Cells(<<>>, s) : s \in UNION {Prefixes(<<1, 0, a, 1, dtype, layout, group, 1, 0>>) :
               a \in Bit, dtype \in 0 .. 5, layout \in 0 .. 3, group \in Bit}}

CodecInit ==
    /\ \/ codec = "blob" /\ Init
       \/ /\ codec \in Codecs
          /\ build \in {"debug", "release"}
          /\ shape = None /\ blob = None /\ given = Absent /\ outcome = None
    /\ value = Absent /\ section = None /\ decoded = None

EncodeSection ==
    /\ section = None
    /\ \E v \in ValuesOf :
         /\ value' = Some(v)
         /\ section' = Encoding(v)
         /\ decoded' = IF section' = Malformed THEN Malformed ELSE None
    /\ UNCHANGED <<vars, codec>>

ForeignSection ==
    /\ section = None
    /\ section' \in ForeignOf
    /\ UNCHANGED <<vars, codec, value, decoded>>

DecodeSection ==
    /\ section # None /\ decoded = None
    /\ decoded' = Decoding(section)
    /\ UNCHANGED <<vars, codec, value, section>>

CodecNext ==
    \/ codec = "blob" /\ Next /\ UNCHANGED codecVars
    \/ codec # "blob" /\ (EncodeSection \/ ForeignSection \/ DecodeSection)

CodecSpec == CodecInit /\ [][CodecNext]_<<vars, codecVars>>

------------------------------------------------------------------------------
\* Lengths and counts that their fields can tell, and vectors of the saga's
\* dimension.
Storable(v) ==
    CASE codec = "tags" -> /\ Len(v) < CellValues
                           /\ \A k \in 1 .. Len(v) : Len(v[k].tag) < CellValues
      [] codec = "centroids" -> /\ Len(v.centroids) < CellValues
                                /\ \A k \in 1 .. Len(v.centroids) : Len(v.centroids[k].vector) = v.dim
      [] codec = "identity" -> Len(v.model_name) < CellValues
      [] OTHER -> TRUE

\* What an encoder is given comes back unchanged, field by field; what its
\* length fields cannot tell is refused by the encoder or, where "as u32"
\* silently cuts a count (saga/write.rs:23, tags.rs:22), by the decoder: never
\* read back as something else.
WrittenComesBack ==
    decoded # None /\ value.some =>
        decoded = IF Storable(value.is) THEN Decoded(value.is) ELSE Malformed

\* Cells that an encoding of v holds and no decoder looks at: the reserved
\* bytes and the filler of an absent adapter.
Unread(v) ==
    CASE codec = "header" -> {HeaderLen + k * EntryLen : k \in 0 .. Len(v.sections)}
      [] codec = "meta" -> {MetaLen}
      [] codec = "identity" /\ ~v.adapter_id.some -> {3}
      [] OTHER -> {}

\* A decoder accepts no cells but the encoding of what it returns, reserved
\* ones aside.  Behind the header come the payloads; only the identity, alone
\* among the sections, passes over what follows its last field
\* (identity.rs:88-97).
AcceptedIsEncoding ==
    decoded.kind = "ok" =>
        LET canonical == Encoding(decoded.is)
            n == Len(canonical.body)
        IN /\ canonical.kind = "ok" /\ canonical.meta = section.meta
           /\ IF codec \in {"header", "identity"} THEN n <= Len(section.body)
                                                  ELSE n = Len(section.body)
           /\ \A k \in 1 .. n : k \in Unread(decoded.is) \/ section.body[k] = canonical.body[k]

\* No section makes a decoder panic but a centroid count and dimension whose
\* product exceeds usize (centroid.rs:42), in either build.  (The other decoders
\* have no such outcome here: a cell read past the end is an error of TLC's.)
PanicsAtOverflow ==
    decoded = Panics =>
        codec = "centroids" /\ section.meta.count * EntrySize(section.meta.dim) >= CellWord
==============================================================================
