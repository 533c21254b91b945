---------------------------- MODULE HullFileProofs ----------------------------
(***************************************************************************)
(* Proofs about HullFile, for any values with any number of sections of    *)
(* any length, and any number of writes and of damaged cells.              *)
(***************************************************************************)
EXTENDS HullFile, DataInduction, FiniteSetTheorems

------------------------------------------------------------------------------
(***************************************************************************)
(* Where things are in an image.                                           *)
(***************************************************************************)
Payloads(v) == [j \in 1 .. Len(v.sections) |-> Payload(v, j)]

DataCells(v) == [kind : {"data"}, of : {v.id}, part : Nat, at : Nat, declares : {v.declares}]
EntryCells(v) == {EntryOf(v, j) : j \in 1 .. Len(v.sections)}
BodyCells(v) == {HeaderOf(v)} \cup EntryCells(v) \cup DataCells(v)

\* The types of a value and its sections.
LEMMA ValueTypes ==
    ASSUME NEW v \in Values
    PROVE  /\ v.id \in STRING /\ v.format \in Formats /\ v.version \in Nat /\ v.declares \in Nat
           /\ v.sections \in Seq([type : STRING, cells : Nat, entry : Entries])
           /\ Len(v.sections) \in Nat /\ DOMAIN v.sections = 1 .. Len(v.sections)
           /\ \A j \in 1 .. Len(v.sections) :
                 /\ v.sections[j].type \in STRING /\ v.sections[j].cells \in Nat
                 /\ v.sections[j].entry \in Entries
                 /\ v.sections[j].type \in {"meta", "shape"} => v.sections[j].cells > 0
  <1>1. /\ v \in [id : STRING, format : Formats, version : Nat, encodes : BOOLEAN,
                  declares : Nat, sections : Seq([type : STRING, cells : Nat, entry : Entries])]
        /\ \A j \in DOMAIN v.sections :
              v.sections[j].type \in {"meta", "shape"} => v.sections[j].cells > 0
    BY ValuesAreRecords
  <1>2. v.sections \in Seq([type : STRING, cells : Nat, entry : Entries])
    BY <1>1
  <1>3. Len(v.sections) \in Nat /\ DOMAIN v.sections = 1 .. Len(v.sections)
    BY <1>2
  <1>4. \A j \in 1 .. Len(v.sections) : v.sections[j] \in [type : STRING, cells : Nat, entry : Entries]
    BY <1>2, ElementOfSeq
  <1>5. QED
    BY <1>1, <1>2, <1>3, <1>4

\* A payload is a sequence of as many data cells as its section says.
LEMMA PayloadTypes ==
    ASSUME NEW v \in Values, NEW j \in 1 .. Len(v.sections)
    PROVE  /\ Payload(v, j) \in Seq(DataCells(v))
           /\ Len(Payload(v, j)) = v.sections[j].cells
           /\ \A k \in 1 .. v.sections[j].cells :
                 Payload(v, j)[k] = [kind |-> "data", of |-> v.id, part |-> j, at |-> k,
                                     declares |-> v.declares]
  <1>1. v.sections[j].cells \in Nat /\ j \in Nat
    BY ValueTypes
  <1>2. \A k \in 1 .. v.sections[j].cells :
          [kind |-> "data", of |-> v.id, part |-> j, at |-> k, declares |-> v.declares]
            \in DataCells(v)
    BY <1>1 DEF DataCells
  <1>3. QED
    BY <1>1, <1>2 DEF Payload

\* The recursive function in Offsets exists.
LEMMA OffsetsAre ==
    ASSUME NEW v \in Values
    PROVE  Offsets(v) = [j \in 1 .. Len(v.sections) |->
                            IF j = 1 THEN HeaderCells + Len(v.sections)
                                     ELSE Offsets(v)[j - 1] + v.sections[j - 1].cells]
  <1> DEFINE n == Len(v.sections)
             Fn(g, k) == g = [j \in 1 .. k |-> IF j = 1 THEN HeaderCells + n
                                               ELSE g[j - 1] + v.sections[j - 1].cells]
             Good == {k \in 1 .. n : \E g : Fn(g, k)}
  <1>1. n \in Nat
    BY ValueTypes
  <1>2. n > 0 => 1 \in Good
    <2>1. Fn([j \in 1 .. 1 |-> HeaderCells + n], 1)
      OBVIOUS
    <2> HIDE DEF Fn
    <2>2. QED
      BY <1>1, <2>1
  <1>3. \A k \in 1 .. n - 1 : k \in Good => k + 1 \in Good
    <2> SUFFICES ASSUME NEW k \in 1 .. n - 1, NEW g, Fn(g, k)
                 PROVE  \E h : Fn(h, k + 1)
      <3> HIDE DEF Fn
      <3> QED
        BY <1>1
    <2> DEFINE h == [j \in 1 .. k + 1 |->
                        IF j = k + 1 THEN g[k] + v.sections[k].cells ELSE g[j]]
    <2>1. \A j \in 1 .. k : g[j] = IF j = 1 THEN HeaderCells + n
                                   ELSE g[j - 1] + v.sections[j - 1].cells
      OBVIOUS
    <2>2. ASSUME NEW j \in 1 .. k + 1
          PROVE  h[j] = IF j = 1 THEN HeaderCells + n ELSE h[j - 1] + v.sections[j - 1].cells
      <3>1. CASE j = k + 1
        <4>1. j # 1 /\ j - 1 = k /\ k \in 1 .. k + 1 /\ k # k + 1
          BY <1>1, <3>1
        <4>2. h[k] = g[k] /\ h[j] = g[k] + v.sections[k].cells
          BY <3>1, <4>1
        <4>3. QED
          BY <4>1, <4>2
      <3>2. CASE j # k + 1
        <4>1. j \in 1 .. k /\ h[j] = g[j]
          BY <1>1, <3>2
        <4>2. j # 1 => j - 1 \in 1 .. k /\ h[j - 1] = g[j - 1]
          BY <1>1, <4>1
        <4>3. QED
          BY <2>1, <4>1, <4>2
      <3>3. QED
        BY <3>1, <3>2
    <2>3. h = [j \in 1 .. k + 1 |-> h[j]]
      OBVIOUS
    <2> HIDE DEF h
    <2>4. Fn(h, k + 1)
      BY <2>2, <2>3
    <2> HIDE DEF Fn
    <2>5. QED
      BY <2>4
  <1>4. \E g : Fn(g, n)
    <2>1. CASE n > 0
      <3> HIDE DEF Good, n
      <3>1. 1 .. n \subseteq Good
        BY <1>1, <1>2, <1>3, UpTo
      <3>2. n \in Good
        BY <1>1, <2>1, <3>1
      <3>3. QED
        BY <3>2 DEF Good
    <2>2. CASE n = 0
      <3>1. Fn([j \in {} |-> 0], n)
        BY <2>2
      <3> HIDE DEF Fn
      <3>2. QED
        BY <3>1
    <2>3. QED
      BY <1>1, <2>1, <2>2
  <1>5. Offsets(v) = CHOOSE g : Fn(g, n)
    BY DEF Offsets
  <1>6. Fn(Offsets(v), n)
    <2> HIDE DEF Fn
    <2> QED
      BY <1>4, <1>5
  <1>7. QED
    BY <1>6

\* The sections follow one another.
LEMMA SectionsConsecutive ==
    ASSUME NEW v \in Values
    PROVE  /\ Payloads(v) \in Seq(Seq(DataCells(v)))
           /\ Len(Payloads(v)) = Len(v.sections)
           /\ \A j \in 1 .. Len(v.sections) : Payloads(v)[j] = Payload(v, j)
           /\ HeaderCells + Len(v.sections) \in Nat
           /\ Consecutive(Offsets(v), HeaderCells + Len(v.sections), Payloads(v))
  <1> DEFINE n == Len(v.sections)
  <1>1. n \in Nat
    BY ValueTypes
  <1>2. \A j \in 1 .. n : Payload(v, j) \in Seq(DataCells(v)) /\ Len(Payload(v, j)) = v.sections[j].cells
    BY PayloadTypes
  <1>3. /\ Payloads(v) \in Seq(Seq(DataCells(v))) /\ Len(Payloads(v)) = n
        /\ \A j \in 1 .. n : Payloads(v)[j] = Payload(v, j)
    BY <1>1, <1>2 DEF Payloads
  <1>4. ASSUME NEW j \in 1 .. n
        PROVE  Offsets(v)[j] = IF j = 1 THEN HeaderCells + n
                               ELSE Offsets(v)[j - 1] + Len(Payloads(v)[j - 1])
    <2>1. Offsets(v)[j] = IF j = 1 THEN HeaderCells + n
                          ELSE Offsets(v)[j - 1] + v.sections[j - 1].cells
      BY OffsetsAre
    <2>2. j # 1 => j - 1 \in 1 .. n
      BY <1>1
    <2>3. j # 1 => Len(Payloads(v)[j - 1]) = v.sections[j - 1].cells
      BY <1>2, <1>3, <2>2
    <2>4. QED
      BY <2>1, <2>3
  <1>5. HeaderCells + n \in Nat
    BY <1>1 DEF HeaderCells
  <1>6. QED
    BY <1>3, <1>4, <1>5 DEF Consecutive

\* Sections lie behind the table, in their order, and do not overlap.
LEMMA OffsetsGrow ==
    ASSUME NEW v \in Values
    PROVE  /\ \A j \in 1 .. Len(v.sections) :
                 Offsets(v)[j] \in Nat /\ HeaderCells + Len(v.sections) <= Offsets(v)[j]
           /\ \A i, j \in 1 .. Len(v.sections) :
                 i < j => Offsets(v)[i] + v.sections[i].cells <= Offsets(v)[j]
  <1> DEFINE S == DataCells(v)
             parts == Payloads(v)
             at == Offsets(v)
             base == HeaderCells + Len(v.sections)
  <1>1. /\ parts \in Seq(Seq(S)) /\ Len(parts) = Len(v.sections)
        /\ \A j \in 1 .. Len(v.sections) : parts[j] = Payload(v, j)
        /\ base \in Nat /\ Consecutive(at, base, parts)
    BY SectionsConsecutive
  <1>2. \A j \in 1 .. Len(v.sections) : Len(Payload(v, j)) = v.sections[j].cells
    BY PayloadTypes
  <1> HIDE DEF S, parts, at, base
  <1>3. /\ \A i \in 1 .. Len(parts) : at[i] \in Nat /\ base <= at[i]
        /\ \A i, j \in 1 .. Len(parts) : i < j => at[i] + Len(parts[i]) <= at[j]
    BY <1>1, ConsecutiveGrows
  <1>4. QED
    BY <1>1, <1>2, <1>3 DEF at, base

\* The cells of all sections in a row.
LEMMA DataIs ==
    ASSUME NEW v \in Values
    PROVE  LET data == FlattenSeq(Payloads(v))
               n == Len(v.sections)
           IN /\ data \in Seq(DataCells(v))
              /\ n > 0 => Offsets(v)[n] + v.sections[n].cells = HeaderCells + n + Len(data)
              /\ \A j \in 1 .. n :
                    /\ Offsets(v)[j] + v.sections[j].cells <= HeaderCells + n + Len(data)
                    /\ \A k \in 1 .. v.sections[j].cells :
                          data[Offsets(v)[j] - (HeaderCells + n) + k] = Payload(v, j)[k]
  <1> DEFINE S == DataCells(v)
             parts == Payloads(v)
             at == Offsets(v)
             base == HeaderCells + Len(v.sections)
             n == Len(v.sections)
             data == FlattenSeq(parts)
  <1>1. /\ parts \in Seq(Seq(S)) /\ Len(parts) = n
        /\ \A j \in 1 .. n : parts[j] = Payload(v, j)
        /\ base \in Nat /\ Consecutive(at, base, parts)
    BY SectionsConsecutive
  <1>2. \A j \in 1 .. n : Len(parts[j]) = v.sections[j].cells /\ Len(parts[j]) \in Nat
    <2> SUFFICES ASSUME NEW j \in 1 .. n
                 PROVE  Len(parts[j]) = v.sections[j].cells /\ Len(parts[j]) \in Nat
      OBVIOUS
    <2>1. parts[j] = Payload(v, j)
      BY <1>1
    <2>2. Len(Payload(v, j)) = v.sections[j].cells
      BY PayloadTypes
    <2>3. v.sections[j].cells \in Nat
      BY ValueTypes
    <2> HIDE DEF parts
    <2>4. QED
      BY <2>1, <2>2, <2>3
  <1>3. /\ \A j \in 1 .. n : at[j] \in Nat
        /\ \A i, j \in 1 .. n : i < j => at[i] + v.sections[i].cells <= at[j]
    BY OffsetsGrow
  <1>4. n \in Nat
    BY ValueTypes
  <1> HIDE DEF S, parts, at, base, n
  <1>5. /\ data \in Seq(S)
        /\ n > 0 => Len(data) = at[n] + Len(parts[n]) - base
        /\ \A i \in 1 .. n : \A m \in 1 .. Len(parts[i]) : data[at[i] - base + m] = parts[i][m]
    <2>1. FlattenSeq(parts) \in Seq(S)
      BY <1>1, Flattened
    <2>2. Len(parts) > 0 =>
            Len(FlattenSeq(parts)) = at[Len(parts)] + Len(parts[Len(parts)]) - base
      BY <1>1, Flattened, SMTT(60)
    <2>3. \A i \in 1 .. Len(parts) : \A m \in 1 .. Len(parts[i]) :
             FlattenSeq(parts)[at[i] - base + m] = parts[i][m]
      BY <1>1, Flattened
    <2>4. QED
      BY <1>1, <2>1, <2>2, <2>3
  <1> HIDE DEF data
  <1>6. ASSUME n > 0 PROVE at[n] + v.sections[n].cells = base + Len(data)
    <2>1. n \in 1 .. n /\ Len(data) = at[n] + Len(parts[n]) - base
      BY <1>4, <1>5, <1>6
    <2>2. Len(data) = at[n] + v.sections[n].cells - base
      BY <1>2, <2>1
    <2> DEFINE c == v.sections[n].cells
               o == at[n]
    <2>3. c \in Nat /\ o \in Nat
      BY <1>2, <1>3, <2>1
    <2> HIDE DEF c, o
    <2>4. Len(data) = o + c - base
      BY <2>2 DEF c, o
    <2>5. o + c = base + Len(data)
      BY <1>1, <2>3, <2>4
    <2>6. QED
      BY <2>5 DEF c, o
  <1>7. ASSUME NEW j \in 1 .. n
        PROVE  at[j] + v.sections[j].cells <= base + Len(data)
    <2>1. n > 0 /\ n \in 1 .. n
      BY <1>4
    <2>2. /\ at[j] \in Nat /\ at[n] \in Nat
          /\ v.sections[j].cells \in Nat /\ v.sections[n].cells \in Nat
      BY <1>2, <1>3, <2>1
    <2>3. at[j] + v.sections[j].cells <= at[n] + v.sections[n].cells
      <3>1. CASE j = n
        BY <2>2, <3>1
      <3>2. CASE j < n
        <4>1. at[j] + v.sections[j].cells <= at[n]
          BY <1>3, <2>1, <3>2
        <4>2. QED
          BY <2>2, <4>1
      <3>3. QED
        BY <1>4, <3>1, <3>2
    <2>4. base + Len(data) = at[n] + v.sections[n].cells
      BY <1>6, <2>1
    <2>5. QED
      BY <2>3, <2>4
  <1>8. ASSUME NEW j \in 1 .. n, NEW k \in 1 .. v.sections[j].cells
        PROVE  data[at[j] - base + k] = Payload(v, j)[k]
    <2>1. Len(parts[j]) = v.sections[j].cells /\ parts[j] = Payload(v, j)
      BY <1>1, <1>2
    <2>2. k \in 1 .. Len(parts[j])
      BY <2>1
    <2>3. data[at[j] - base + k] = parts[j][k]
      BY <1>5, <2>2
    <2>4. QED
      BY <2>1, <2>3
  <1>9. QED
    BY <1>5, <1>6, <1>7, <1>8 DEF S, parts, at, base, n, data

\* The header, an entry for each section and the data, in a row.
LEMMA BodyIs ==
    ASSUME NEW v \in Values
    PROVE  LET data == FlattenSeq(Payloads(v))
               n == Len(v.sections)
               cells == BodyCells(v)
           IN /\ Body(v) \in Seq(cells)
              /\ Len(Body(v)) = HeaderCells + n + Len(data)
              /\ Body(v)[1] = HeaderOf(v)
              /\ \A j \in 1 .. n : Body(v)[HeaderCells + j] = EntryOf(v, j)
              /\ \A p \in 1 .. Len(data) : Body(v)[HeaderCells + n + p] = data[p]
  <1> DEFINE data == FlattenSeq(Payloads(v))
             n == Len(v.sections)
             cells == BodyCells(v)
             first == <<HeaderOf(v)>>
             table == [j \in 1 .. n |-> EntryOf(v, j)]
             front == first \o table
  <1>1. n \in Nat
    BY ValueTypes
  <1>2. data \in Seq(DataCells(v))
    BY DataIs
  <1>3. data \in Seq(cells)
    <2> HIDE DEF data
    <2>1. DataCells(v) \subseteq cells
      BY DEF BodyCells
    <2> HIDE DEF cells
    <2>2. QED
      BY <1>2, <2>1, SeqMonotonic
  <1>4. first \in Seq(cells) /\ Len(first) = 1 /\ first[1] = HeaderOf(v)
    BY DEF BodyCells
  <1>5. table \in Seq(cells) /\ Len(table) = n /\ \A j \in 1 .. n : table[j] = EntryOf(v, j)
    <2>1. \A j \in 1 .. n : EntryOf(v, j) \in cells
      BY DEF BodyCells, EntryCells
    <2> HIDE DEF cells, n
    <2>2. QED
      BY <1>1, <2>1
  <1>6. Body(v) = front \o data
    BY DEF Body, Payloads
  <1> HIDE DEF data, cells, first, table, front, n
  <1>7. /\ front \in Seq(cells)
        /\ Len(front) = 1 + n
        /\ front[1] = HeaderOf(v)
        /\ \A j \in 1 .. n : front[1 + j] = EntryOf(v, j)
    <2>1. first \o table \in Seq(cells)
      BY <1>4, <1>5, Joined
    <2>2. Len(first \o table) = Len(first) + Len(table)
      BY <1>4, <1>5, Joined
    <2>3. \A p \in 1 .. Len(first) : (first \o table)[p] = first[p]
      BY <1>4, <1>5, Joined
    <2>4. \A p \in 1 .. Len(table) : (first \o table)[Len(first) + p] = table[p]
      BY <1>4, <1>5, Joined
    <2>5. QED
      BY <1>1, <1>4, <1>5, <2>1, <2>2, <2>3, <2>4 DEF front
  <1>8. /\ front \o data \in Seq(cells)
        /\ Len(front \o data) = Len(front) + Len(data)
    BY <1>3, <1>7, Joined
  <1>9. \A p \in 1 .. Len(front) : (front \o data)[p] = front[p]
    BY <1>3, <1>7, Joined
  <1>10. \A p \in 1 .. Len(data) : (front \o data)[Len(front) + p] = data[p]
    BY <1>3, <1>7, Joined
  <1>11. Body(v)[1] = HeaderOf(v)
    BY <1>1, <1>6, <1>7, <1>9
  <1>12. ASSUME NEW j \in 1 .. n
         PROVE  Body(v)[HeaderCells + j] = EntryOf(v, j)
    BY <1>1, <1>6, <1>7, <1>9 DEF HeaderCells
  <1>13. ASSUME NEW p \in 1 .. Len(data)
         PROVE  Body(v)[HeaderCells + n + p] = data[p]
    BY <1>1, <1>6, <1>7, <1>10 DEF HeaderCells
  <1>14. Len(Body(v)) = HeaderCells + n + Len(data)
    BY <1>1, <1>6, <1>7, <1>8 DEF HeaderCells
  <1>15. Body(v) \in Seq(cells)
    BY <1>6, <1>8
  <1>16. QED
    BY <1>11, <1>12, <1>13, <1>14, <1>15 DEF data, cells, n

\* An image: the header, the table, the payload of each section where its entry
\* says, and the trailer, which vouches for all that.
LEMMA ImageIs ==
    ASSUME NEW v \in Values
    PROVE  LET n == Len(v.sections)
           IN /\ Body(v) \in Seq(BodyCells(v)) /\ Len(Body(v)) \in Nat /\ Len(Body(v)) >= HeaderCells + n
              /\ Body(v)[1] = HeaderOf(v)
              /\ \A j \in 1 .. n : Body(v)[HeaderCells + j] = EntryOf(v, j)
              /\ \A j \in 1 .. n : Offsets(v)[j] + v.sections[j].cells <= Len(Body(v))
              /\ n > 0 => Offsets(v)[n] + v.sections[n].cells = Len(Body(v))
              /\ \A j \in 1 .. n : \A k \in 1 .. v.sections[j].cells :
                    Body(v)[Offsets(v)[j] + k] = Payload(v, j)[k]
  <1> DEFINE data == FlattenSeq(Payloads(v))
             n == Len(v.sections)
             cells == BodyCells(v)
             base == HeaderCells + n
  <1>1. n \in Nat /\ base \in Nat
    BY ValueTypes DEF HeaderCells
  <1>2. Len(data) \in Nat
    BY DataIs
  <1>3. /\ Body(v) \in Seq(cells)
        /\ Len(Body(v)) = base + Len(data)
        /\ Body(v)[1] = HeaderOf(v)
        /\ \A j \in 1 .. n : Body(v)[HeaderCells + j] = EntryOf(v, j)
        /\ \A p \in 1 .. Len(data) : Body(v)[base + p] = data[p]
    BY BodyIs
  <1>4. \A j \in 1 .. n :
          /\ Offsets(v)[j] + v.sections[j].cells <= base + Len(data)
          /\ \A k \in 1 .. v.sections[j].cells :
                data[Offsets(v)[j] - base + k] = Payload(v, j)[k]
    BY DataIs
  <1>5. \A j \in 1 .. n : Offsets(v)[j] \in Nat /\ base <= Offsets(v)[j] /\ v.sections[j].cells \in Nat
    BY OffsetsGrow, ValueTypes
  <1> HIDE DEF data, cells, base, n
  <1>6. ASSUME NEW j \in 1 .. n, NEW k \in 1 .. v.sections[j].cells
        PROVE  Body(v)[Offsets(v)[j] + k] = Payload(v, j)[k]
    <2> DEFINE o == Offsets(v)[j]
               c == v.sections[j].cells
    <2>1. o \in Nat /\ c \in Nat /\ base <= o /\ o + c <= base + Len(data) /\ k \in 1 .. c
      BY <1>4, <1>5
    <2>2. data[o - base + k] = Payload(v, j)[k]
      BY <1>4
    <2> HIDE DEF o, c
    <2>3. o - base + k \in 1 .. Len(data) /\ base + (o - base + k) = o + k
      BY <1>1, <1>2, <2>1
    <2>4. Body(v)[o + k] = Payload(v, j)[k]
      BY <1>3, <2>2, <2>3
    <2>5. QED
      BY <2>4 DEF o
  <1>7. Len(Body(v)) \in Nat /\ Len(Body(v)) >= base
    BY <1>1, <1>2, <1>3
  <1>8. n > 0 => Offsets(v)[n] + v.sections[n].cells = Len(Body(v))
    BY <1>3, DataIs DEF n, base, data
  <1>9. QED
    BY <1>3, <1>4, <1>6, <1>7, <1>8 DEF n, base, cells

\* An image is a body and the trailer that vouches for it.
LEMMA ImageCells ==
    ASSUME NEW v \in Values
    PROVE  /\ Image(v) \in Seq(BodyCells(v) \cup {Trailer(Body(v))})
           /\ Len(Image(v)) = Len(Body(v)) + TrailerCells
           /\ \A p \in 1 .. Len(Body(v)) : Image(v)[p] = Body(v)[p]
           /\ Last(Image(v)) = Trailer(Body(v))
           /\ Front(Image(v)) = Body(v)
  <1> DEFINE S == BodyCells(v) \cup {Trailer(Body(v))}
             t == Trailer(Body(v))
             s == Body(v)
  <1>1. s \in Seq(BodyCells(v))
    BY ImageIs
  <1>2. s \in Seq(S) /\ t \in S
    <2>1. BodyCells(v) \subseteq S
      OBVIOUS
    <2> HIDE DEF S, s
    <2>2. s \in Seq(S)
      BY <1>1, <2>1, SeqMonotonic
    <2>3. QED
      BY <2>2 DEF S
  <1>3. Image(v) = Append(s, t)
    BY DEF Image
  <1> HIDE DEF S, s, t
  <1>4. Append(s, t) \in Seq(S) /\ Len(Append(s, t)) = Len(s) + 1
    BY <1>2, FrontOfAppend
  <1>5. \A p \in 1 .. Len(s) : Append(s, t)[p] = s[p]
    BY <1>2, FrontOfAppend
  <1>6. Last(Append(s, t)) = t /\ Front(Append(s, t)) = s
    BY <1>2, FrontOfAppend
  <1>7. QED
    BY <1>3, <1>4, <1>5, <1>6 DEF S, s, t, TrailerCells

\* A copy that ends in the trailer of some image and is accepted by that trailer
\* is the image (the check of the trailing CRC in read_saga and read_kv_cache).
LEMMA AcceptedIsImage ==
    ASSUME NEW v \in Values, NEW S, NEW all \in Seq(S), Len(all) > 0,
           Last(all) = Trailer(Body(v)), TrailerFits(all)
    PROVE  all = Image(v)
  <1>1. Trailer(Front(all)) = Trailer(Body(v))
    BY DEF TrailerFits
  <1>2. Trailer(Front(all)).crc = Trailer(Body(v)).crc
    BY <1>1
  <1>3. Crc(Front(all)) = Crc(Body(v))
    BY <1>2 DEF Trailer
  <1>4. Front(all) = Body(v)
    BY <1>3 DEF Crc
  <1>5. all = Append(Front(all), Last(all))
    BY FrontThenLast
  <1>6. QED
    BY <1>4, <1>5 DEF Image

------------------------------------------------------------------------------
(***************************************************************************)
(* What the readers make of an image.                                      *)
(***************************************************************************)

\* The fields of a table entry.
LEMMA EntryIs ==
    ASSUME NEW v \in Values, NEW j \in 1 .. Len(v.sections)
    PROVE  /\ EntryOf(v, j).kind = "entry"
           /\ EntryOf(v, j).type = v.sections[j].type
           /\ EntryOf(v, j).offset =
                 IF v.sections[j].entry = "outside" THEN Outside(v) ELSE Offsets(v)[j]
           /\ EntryOf(v, j).cells = v.sections[j].cells
           /\ EntryOf(v, j).checksum =
                 IF v.sections[j].entry = "wrong" THEN WrongCrc ELSE Crc(Payload(v, j))
           /\ AsEntry(EntryOf(v, j)) = EntryOf(v, j)
  <1>1. EntryOf(v, j).kind = "entry"
    BY DEF EntryOf
  <1>2. AsEntry(EntryOf(v, j)) = EntryOf(v, j)
    BY <1>1 DEF AsEntry
  <1>3. QED
    BY <1>1, <1>2 DEF EntryOf

\* A table entry that is not outside leads to its payload in every sequence of
\* cells that has it there.
LEMMA CellsAre ==
    ASSUME NEW v \in Values, NEW j \in 1 .. Len(v.sections), NEW all,
           v.sections[j].entry # "outside",
           \A k \in 1 .. v.sections[j].cells : all[Offsets(v)[j] + k] = Payload(v, j)[k]
    PROVE  Cells(all, EntryOf(v, j)) = Payload(v, j)
  <1> DEFINE o == Offsets(v)[j]
             c == v.sections[j].cells
             S == DataCells(v)
             p == Payload(v, j)
  <1>1. o \in Nat /\ c \in Nat
    BY OffsetsGrow, ValueTypes
  <1>2. p \in Seq(S) /\ Len(p) = c
    BY PayloadTypes
  <1>3. Cells(all, EntryOf(v, j)) = SubSeq(all, o + 1, o + c)
    BY EntryIs DEF Cells
  <1>4. \A k \in 1 .. c : all[o + k] = p[k]
    OBVIOUS
  <1> HIDE DEF o, c, S, p
  <1>5. \A i \in o + 1 .. o + c : all[i] \in S
    <2> SUFFICES ASSUME NEW i \in o + 1 .. o + c PROVE all[i] \in S
      OBVIOUS
    <2>1. i - o \in 1 .. c /\ o + (i - o) = i
      BY <1>1
    <2>2. p[i - o] \in S
      BY <1>2, <2>1, ElementOfSeq
    <2>3. QED
      BY <1>4, <2>1, <2>2
  <1>6. o + 1 \in Int /\ o + c \in Int
    BY <1>1
  <1> DEFINE t == SubSeq(all, o + 1, o + c)
  <1>7. t \in Seq(S)
    BY <1>5, <1>6, SubSeqProperties
  <1>8. Len(t) = IF o + 1 <= o + c THEN (o + c) - (o + 1) + 1 ELSE 0
    BY <1>5, <1>6, SubSeqProperties
  <1>9. \A i \in 1 .. (o + c) - (o + 1) + 1 : t[i] = all[(o + 1) + i - 1]
    BY <1>5, <1>6, SubSeqProperties
  <1> HIDE DEF t
  <1>10. Len(t) = c
    BY <1>1, <1>8
  <1>11. ASSUME NEW k \in 1 .. c PROVE t[k] = p[k]
    <2>1. k \in 1 .. (o + c) - (o + 1) + 1 /\ (o + 1) + k - 1 = o + k
      BY <1>1
    <2>2. QED
      BY <1>4, <1>9, <2>1
  <1>12. t = p
    BY <1>2, <1>7, <1>10, <1>11, SeqEqual
  <1>13. QED
    BY <1>3, <1>12 DEF t, p

\* Where the table says a section is.
LEMMA EntryPlaces ==
    ASSUME NEW v \in Values, NEW j \in 1 .. Len(v.sections)
    PROVE  LET e == EntryOf(v, j)
           IN /\ e.offset \in Nat /\ e.cells \in Nat /\ Len(Body(v)) \in Nat
              /\ v.sections[j].entry # "outside" => e.offset + e.cells <= Len(Body(v))
              /\ v.sections[j].entry = "outside" => e.offset = Len(Body(v)) + TrailerCells
  <1> DEFINE n == Len(v.sections)
             o == Offsets(v)[j]
             c == v.sections[j].cells
             b == Len(Body(v))
             out == Outside(v)
             e == EntryOf(v, j)
  <1>1. o \in Nat /\ c \in Nat /\ b \in Nat
    BY OffsetsGrow, ValueTypes, ImageIs
  <1>2. o + c <= b
    BY ImageIs
  <1>3. out = b + TrailerCells
    <2>1. n > 0
      BY ValueTypes
    <2>2. Offsets(v)[n] + v.sections[n].cells = b
      BY <2>1, ImageIs
    <2>3. QED
      BY <2>2 DEF Outside
  <1>4. e.offset = (IF v.sections[j].entry = "outside" THEN out ELSE o) /\ e.cells = c
    BY EntryIs
  <1> HIDE DEF n, o, c, b, out, e
  <1>5. CASE v.sections[j].entry = "outside"
    BY <1>1, <1>3, <1>4, <1>5 DEF e, b, TrailerCells
  <1>6. CASE v.sections[j].entry # "outside"
    BY <1>1, <1>2, <1>4, <1>6 DEF e, b
  <1>7. QED
    BY <1>5, <1>6

\* No checksum is the wrong one.
LEMMA CrcNotWrong == \A cells : Crc(cells) # WrongCrc
  <1> SUFFICES ASSUME NEW cells PROVE Crc(cells) # WrongCrc
    OBVIOUS
  <1>1. Len(Crc(cells)) = 2 /\ Len(WrongCrc) = 1
    BY DEF Crc, WrongCrc
  <1>2. QED
    BY <1>1

\* Nothing is read of an empty section.
LEMMA NothingRead ==
    ASSUME NEW all, NEW o \in Nat
    PROVE  SubSeq(all, o + 1, o) = <<>>
  <1> DEFINE t == SubSeq(all, o + 1, o)
  <1>1. \A i \in o + 1 .. o : all[i] \in {}
    OBVIOUS
  <1>2. t \in Seq({})
    BY <1>1, SubSeqProperties
  <1>3. Len(t) = IF o + 1 <= o THEN o - (o + 1) + 1 ELSE 0
    BY <1>1, SubSeqProperties
  <1> HIDE DEF t
  <1>4. Len(t) = 0
    BY <1>3
  <1>5. t = <<>>
    BY <1>2, <1>4
  <1>6. QED
    BY <1>5 DEF t

\* What the scrubber makes of a section, as far as its entry alone tells.
Verdict(section) ==
    CASE section.entry = "right" -> "Ok"
      [] section.entry = "wrong" -> "ChecksumMismatch"
      [] section.entry = "outside" -> IF section.cells = 0 THEN "Ok" ELSE "ReadError"

\* It says so of every file as long as the image in which the payload is where
\* it belongs, and the readers refuse the section accordingly.
LEMMA SectionsAre ==
    ASSUME NEW v \in Values, NEW j \in 1 .. Len(v.sections), NEW all,
           Len(all) = Len(Body(v)) + TrailerCells,
           \A k \in 1 .. v.sections[j].cells : all[Offsets(v)[j] + k] = Payload(v, j)[k]
    PROVE  /\ v.sections[j].entry = "right" => Cells(all, EntryOf(v, j)) = Payload(v, j)
           /\ SectionError(all, EntryOf(v, j)) = EntryError(v.sections[j])
           /\ Verify(all, EntryOf(v, j)) = Verdict(v.sections[j])
  <1> DEFINE e == EntryOf(v, j)
             b == Len(Body(v))
             says == v.sections[j].entry
  <1>1. e.offset \in Nat /\ e.cells \in Nat /\ b \in Nat
    BY EntryPlaces
  <1>2. says \in Entries /\ e.cells = v.sections[j].cells
    BY ValueTypes, EntryIs
  <1>3. e.checksum = IF says = "wrong" THEN WrongCrc ELSE Crc(Payload(v, j))
    BY EntryIs
  <1>4. ASSUME says # "outside"
        PROVE  /\ ~(e.offset + e.cells > Len(all) - TrailerCells)
               /\ ~(e.offset + e.cells > Len(all))
               /\ Cells(all, e) = Payload(v, j)
    <2>1. e.offset + e.cells <= b
      BY <1>4, EntryPlaces
    <2>2. Cells(all, e) = Payload(v, j)
      BY <1>4, CellsAre
    <2> HIDE DEF e, b
    <2>3. Len(all) = b + 1
      BY DEF b, TrailerCells
    <2>4. QED
      BY <1>1, <2>1, <2>2, <2>3 DEF TrailerCells
  <1>5. CASE says = "right"
    <2>1. Crc(Cells(all, e)) = e.checksum
      BY <1>3, <1>4, <1>5
    <2> HIDE DEF e
    <2>2. SectionError(all, e) = "none" /\ Verify(all, e) = "Ok"
      BY <1>4, <1>5, <2>1 DEF SectionError, Verify
    <2>3. QED
      BY <1>4, <1>5, <2>2 DEF e, Verdict, EntryError
  <1>6. CASE says = "wrong"
    <2>1. Crc(Cells(all, e)) # e.checksum
      BY <1>3, <1>6, CrcNotWrong
    <2> HIDE DEF e
    <2>2. SectionError(all, e) = "SectionChecksumFailed" /\ Verify(all, e) = "ChecksumMismatch"
      BY <1>4, <1>6, <2>1 DEF SectionError, Verify
    <2>3. QED
      BY <1>6, <2>2 DEF e, Verdict, EntryError
  <1>7. CASE says = "outside"
    <2>1. e.offset = Len(all)
      BY <1>7, EntryPlaces
    <2> HIDE DEF e, b
    <2>2. Len(all) = b + 1
      BY DEF b, TrailerCells
    <2>3. SectionError(all, e) = "Truncated"
      BY <1>1, <2>1, <2>2 DEF SectionError, TrailerCells
    <2>4. CASE e.cells > 0
      <3>1. Verify(all, e) = "ReadError"
        BY <1>1, <2>1, <2>2, <2>4 DEF Verify
      <3>2. v.sections[j].cells # 0
        BY <1>1, <1>2, <2>4
      <3>3. QED
        BY <1>7, <2>3, <3>1, <3>2 DEF e, Verdict, EntryError
    <2>5. CASE ~(e.cells > 0)
      <3>1. e.cells = 0
        BY <1>1, <2>5
      <3>2. Cells(all, e) = <<>>
        <4>1. e.offset + e.cells = e.offset
          BY <1>1, <3>1
        <4>2. QED
          BY <1>1, <4>1, NothingRead DEF Cells
      <3>3. Payload(v, j) = <<>>
        <4>1. Payload(v, j) \in Seq(DataCells(v)) /\ Len(Payload(v, j)) = 0
          BY <1>2, <3>1, PayloadTypes
        <4>2. QED
          BY <4>1
      <3>4. Crc(Cells(all, e)) = e.checksum
        BY <1>3, <1>7, <3>2, <3>3
      <3>5. Verify(all, e) = "Ok"
        BY <2>5, <3>4 DEF Verify
      <3>6. QED
        BY <1>2, <1>7, <2>3, <3>1, <3>5 DEF e, Verdict, EntryError
    <2>6. QED
      BY <2>4, <2>5
  <1>8. QED
    BY <1>2, <1>5, <1>6, <1>7 DEF Entries

\* The payloads of an image are where they belong.
LEMMA ImagePayloads ==
    ASSUME NEW v \in Values, NEW j \in 1 .. Len(v.sections)
    PROVE  /\ Len(Image(v)) = Len(Body(v)) + TrailerCells
           /\ \A k \in 1 .. v.sections[j].cells :
                 Image(v)[Offsets(v)[j] + k] = Payload(v, j)[k]
  <1> DEFINE o == Offsets(v)[j]
             c == v.sections[j].cells
             b == Len(Body(v))
  <1>1. o \in Nat /\ c \in Nat /\ b \in Nat
    BY OffsetsGrow, ValueTypes, ImageIs
  <1>2. o + c <= b
    BY ImageIs
  <1>3. ASSUME NEW k \in 1 .. c PROVE Image(v)[o + k] = Payload(v, j)[k]
    <2>1. Body(v)[o + k] = Payload(v, j)[k]
      BY ImageIs
    <2>2. o + k \in 1 .. b
      <3> HIDE DEF o, c, b
      <3> QED
        BY <1>1, <1>2
    <2>3. QED
      BY <2>1, <2>2, ImageCells
  <1>4. QED
    BY <1>3, ImageCells

\* So the checks of an image's sections come out as its entries say.
LEMMA ImageSections ==
    ASSUME NEW v \in Values, NEW j \in 1 .. Len(v.sections)
    PROVE  /\ v.sections[j].entry = "right" => Cells(Image(v), EntryOf(v, j)) = Payload(v, j)
           /\ SectionError(Image(v), EntryOf(v, j)) = EntryError(v.sections[j])
           /\ Verify(Image(v), EntryOf(v, j)) = Verdict(v.sections[j])
  <1> DEFINE all == Image(v)
  <1>1. Len(all) = Len(Body(v)) + TrailerCells
    BY ImagePayloads
  <1>2. \A k \in 1 .. v.sections[j].cells : all[Offsets(v)[j] + k] = Payload(v, j)[k]
    BY ImagePayloads
  <1> HIDE DEF all
  <1>3. v.sections[j].entry = "right" => Cells(all, EntryOf(v, j)) = Payload(v, j)
    BY <1>1, <1>2, SectionsAre
  <1>4. SectionError(all, EntryOf(v, j)) = EntryError(v.sections[j])
    BY <1>1, <1>2, SectionsAre
  <1>5. Verify(all, EntryOf(v, j)) = Verdict(v.sections[j])
    BY <1>1, <1>2, SectionsAre
  <1>6. QED
    BY <1>3, <1>4, <1>5 DEF all

\* The section table as the readers and the scrubber see it.
Table(v) == [j \in 1 .. Len(v.sections) |-> EntryOf(v, j)]

\* The section of a type that counts: the last one.
LastOf(v, type) == SelectLastInSeq(v.sections, LAMBDA s : s.type = type)

\* Header::read on any cells that begin with the header and table of a value.
LEMMA HeaderIsRead ==
    ASSUME NEW v \in Values, NEW all, Len(all) \in Nat,
           Len(all) >= HeaderCells + Len(v.sections), all[1] = HeaderOf(v),
           \A j \in 1 .. Len(v.sections) : all[HeaderCells + j] = EntryOf(v, j)
    PROVE  ReadHeader(all) = [ok |-> TRUE, format |-> v.format, version |-> v.version,
                              sections |-> Table(v)]
  <1> DEFINE n == Len(v.sections)
             h == all[1]
             table == [j \in 1 .. n |-> AsEntry(all[HeaderCells + j])]
  <1>1. n \in Nat /\ v.format \in Formats
    BY ValueTypes
  <1>2. v.format # "unknown"
    BY <1>1 DEF Formats
  <1>3. /\ h.magic /\ h.format = v.format /\ h.table /\ h.count = n /\ h.version = v.version
    BY DEF HeaderOf
  <1>4. table = Table(v)
    BY EntryIs DEF Table
  <1>5. ~(Len(all) < HeaderCells) /\ ~(Len(all) < HeaderCells + h.count)
    BY <1>1, <1>3 DEF HeaderCells
  <1>6. ReadHeader(all) = [ok |-> TRUE, format |-> h.format, version |-> h.version,
                           sections |-> [j \in 1 .. h.count |-> AsEntry(all[HeaderCells + j])]]
    BY <1>2, <1>3, <1>5 DEF ReadHeader
  <1> HIDE DEF h
  <1>7. [j \in 1 .. h.count |-> AsEntry(all[HeaderCells + j])] = table
    BY <1>3
  <1>8. QED
    BY <1>3, <1>4, <1>6, <1>7

\* Locate takes the last section of the type.
LEMMA LocateIs ==
    ASSUME NEW v \in Values, NEW type
    PROVE  /\ Locate(Table(v), type) = LastOf(v, type)
           /\ LastOf(v, type) = 0 <=> type \notin Types(v)
           /\ LastOf(v, type) # 0 => /\ LastOf(v, type) \in 1 .. Len(v.sections)
                                     /\ v.sections[LastOf(v, type)].type = type
  <1> DEFINE n == Len(v.sections)
             I == {i \in 1 .. n : v.sections[i].type = type}
             J == {i \in 1 .. Len(Table(v)) : Table(v)[i].type = type}
  <1>1. n \in Nat /\ DOMAIN v.sections = 1 .. n
    BY ValueTypes
  <1>2. Len(Table(v)) = n
    BY <1>1 DEF Table
  <1>3. \A i \in 1 .. n : Table(v)[i].type = v.sections[i].type
    BY EntryIs DEF Table
  <1>4. I = J
    BY <1>2, <1>3
  <1>5. LastOf(v, type) = IF I # {} THEN Max(I) ELSE 0
    BY DEF LastOf, SelectLastInSeq
  <1>6. Locate(Table(v), type) = IF J # {} THEN Max(J) ELSE 0
    BY DEF Locate, SelectLastInSeq
  <1>7. I # {} <=> type \in Types(v)
    BY <1>1 DEF Types
  <1>8. I # {} => Max(I) \in I
    <2>1. I \subseteq 1 .. n
      OBVIOUS
    <2> HIDE DEF I, n
    <2>2. QED
      BY <1>1, <2>1, MaxIndex
  <1>9. I # {} => LastOf(v, type) \in 1 .. n /\ v.sections[LastOf(v, type)].type = type
    BY <1>5, <1>8
  <1> HIDE DEF I, J
  <1>10. Locate(Table(v), type) = LastOf(v, type)
    BY <1>4, <1>5, <1>6
  <1>11. I # {} => LastOf(v, type) # 0
    BY <1>1, <1>9
  <1>12. I = {} => LastOf(v, type) = 0
    BY <1>5
  <1>13. QED
    BY <1>7, <1>9, <1>10, <1>11, <1>12

\* No section of the type comes after it.
LEMMA LastIsLast ==
    ASSUME NEW v \in Values, NEW j \in 1 .. Len(v.sections)
    PROVE  j <= LastOf(v, v.sections[j].type)
  <1> DEFINE n == Len(v.sections)
             type == v.sections[j].type
             I == {i \in 1 .. n : v.sections[i].type = type}
  <1>1. n \in Nat /\ j \in I /\ I \subseteq 1 .. n
    BY ValueTypes
  <1>2. LastOf(v, type) = IF I # {} THEN Max(I) ELSE 0
    BY DEF LastOf, SelectLastInSeq
  <1> HIDE DEF I, n, type
  <1>3. j <= Max(I)
    BY <1>1, MaxIndex
  <1>4. QED
    BY <1>1, <1>2, <1>3 DEF type

\* The required sections of a format, the one that declares a size and the one
\* whose size it declares among them.
LEMMA RequiredIs ==
    ASSUME NEW format \in Formats
    PROVE  LET req == Required(format)
               sized == Sized(format)
           IN /\ DOMAIN req = 1 .. 3 /\ Len(req) = 3
              /\ sized \in 1 .. 3 /\ sized - 1 \in 1 .. 3
              /\ req[sized - 1] \in {"meta", "shape"}
              /\ req[sized] = IF format = "saga" THEN "centroids" ELSE "blob"
  <1>1. CASE format = "saga"
    <2>1. Required(format) = <<"meta", "centroids", "tags">> /\ Sized(format) = 2
      BY <1>1 DEF Required, Sized
    <2>2. QED
      BY <1>1, <2>1
  <1>2. CASE format # "saga"
    <2>1. Required(format) = <<"identity", "shape", "blob">> /\ Sized(format) = 3
      BY <1>2 DEF Required, Sized
    <2>2. QED
      BY <1>2, <2>1
  <1>3. QED
    BY <1>1, <1>2

\* The first of a set of places, or 0.
LEMMA FirstPlace ==
    ASSUME NEW I, I \subseteq Nat \ {0}
    PROVE  LET first == IF I # {} THEN Min(I) ELSE 0
           IN /\ first = 0 <=> I = {}
              /\ first # 0 => first \in I
              /\ \A i \in I : first <= i
  <1>1. CASE I # {}
    <2>1. Min(I) \in I /\ \A i \in I : Min(I) <= i
      BY <1>1, MinIndex
    <2>2. Min(I) # 0
      BY <2>1
    <2>3. QED
      BY <1>1, <2>1, <2>2
  <1>2. CASE I = {}
    BY <1>2
  <1>3. QED
    BY <1>1, <1>2

\* Sections of an image that has them all: the first whose entry is not right,
\* or the declared size, decides.
LEMMA SectionsAreRead ==
    ASSUME NEW v \in Values,
           ToSet(Required(v.format)) \subseteq Types(v)
    PROVE  LET req == Required(v.format)
               entry == [j \in DOMAIN req |-> Table(v)[LastOf(v, req[j])]]
           IN /\ Sections(Image(v), v.format, entry) = SectionsOutcome(v)
              /\ SectionsOutcome(v).ok =>
                    \A j \in DOMAIN req : v.sections[LastOf(v, req[j])].entry = "right"
  <1> DEFINE req == Required(v.format)
             sized == Sized(v.format)
             n == Len(v.sections)
             all == Image(v)
             at(j) == LastOf(v, req[j])
             entry == [j \in DOMAIN req |-> Table(v)[at(j)]]
             errors == [j \in DOMAIN req |-> EntryError(v.sections[at(j)])]
             I == {i \in 1 .. Len(entry) : SectionError(all, entry[i]) # "none"}
             J == {i \in 1 .. Len(errors) : errors[i] # "none"}
             bad == IF I # {} THEN Min(I) ELSE 0
  <1>1. /\ DOMAIN req = 1 .. 3
        /\ sized \in 1 .. 3 /\ sized - 1 \in 1 .. 3
        /\ req[sized - 1] \in {"meta", "shape"}
        /\ req[sized] = IF v.format = "saga" THEN "centroids" ELSE "blob"
    BY ValueTypes, RequiredIs
  <1>2. ASSUME NEW j \in 1 .. 3 PROVE at(j) \in 1 .. n /\ v.sections[at(j)].type = req[j]
    <2>1. req[j] \in Types(v)
      BY <1>1 DEF ToSet
    <2>2. QED
      BY <2>1, LocateIs
  <1>3. ASSUME NEW j \in 1 .. 3 PROVE entry[j] = EntryOf(v, at(j))
    BY <1>1, <1>2 DEF Table
  <1>4. /\ DOMAIN entry = 1 .. 3 /\ Len(entry) = 3 /\ Len(errors) = 3
        /\ \A j \in 1 .. 3 : errors[j] = EntryError(v.sections[at(j)])
    <2>1. DOMAIN entry = 1 .. 3 /\ DOMAIN errors = 1 .. 3
      BY <1>1
    <2>2. \A j \in 1 .. 3 : errors[j] = EntryError(v.sections[at(j)])
      BY <1>1
    <2> HIDE DEF entry, errors, at
    <2>3. QED
      BY <2>1, <2>2
  <1>5. ASSUME NEW j \in 1 .. 3
        PROVE  /\ errors[j] = "none" => Cells(all, entry[j]) = Payload(v, at(j))
               /\ errors[j] = "none" <=> v.sections[at(j)].entry = "right"
               /\ SectionError(all, entry[j]) = errors[j]
               /\ entry[j].cells = v.sections[at(j)].cells
    <2>1. at(j) \in 1 .. n /\ entry[j] = EntryOf(v, at(j)) /\ errors[j] = EntryError(v.sections[at(j)])
      BY <1>2, <1>3, <1>4
    <2> HIDE DEF all, at, entry, errors
    <2>2. v.sections[at(j)].entry \in Entries
      BY <2>1, ValueTypes
    <2>3. errors[j] = "none" <=> v.sections[at(j)].entry = "right"
      BY <2>1, <2>2 DEF EntryError, Entries
    <2>4. v.sections[at(j)].entry = "right" => Cells(all, entry[j]) = Payload(v, at(j))
      BY <2>1, ImageSections DEF all
    <2>5. SectionError(all, entry[j]) = errors[j]
      BY <2>1, ImageSections DEF all
    <2>6. entry[j].cells = v.sections[at(j)].cells
      BY <2>1, EntryIs
    <2>7. QED
      BY <2>3, <2>4, <2>5, <2>6
  <1>6. I = J
    <2> HIDE DEF all, entry, errors
    <2> QED
      BY <1>4, <1>5
  <1>7. SelectInSeq(entry, LAMBDA e : SectionError(all, e) # "none") = bad
    BY DEF SelectInSeq
  <1>8. SelectInSeq(errors, LAMBDA e : e # "none") = bad
    BY <1>6 DEF SelectInSeq
  <1>9. Fits(v) <=> v.sections[at(sized)].cells = v.declares
    BY <1>1 DEF Fits, LastOf
  <1>10. PayloadsOf(v) = [k \in 1 .. 3 |-> Payload(v, at(k))]
    BY <1>1 DEF PayloadsOf, LastOf
  <1>11. SectionsOutcome(v) =
           CASE bad \in 1 .. sized -> Error(errors[bad])
             [] bad \notin 1 .. sized /\ ~Fits(v) -> Error("Malformed")
             [] bad > sized /\ Fits(v) -> Error(errors[bad])
             [] OTHER -> [ok |-> TRUE, payloads |-> PayloadsOf(v)]
    <2> HIDE DEF bad, I, J
    <2> QED
      BY <1>8 DEF SectionsOutcome, LastOf
  <1>12. Sections(all, v.format, entry) =
           IF bad \in 1 .. sized THEN Error(SectionError(all, entry[bad]))
           ELSE IF Cells(all, entry[sized - 1])[1].declares # entry[sized].cells THEN Error("Malformed")
           ELSE IF bad # 0 THEN Error(SectionError(all, entry[bad]))
           ELSE [ok |-> TRUE, payloads |-> [k \in DOMAIN entry |-> Cells(all, entry[k])]]
    <2> HIDE DEF bad, I, J, entry, all
    <2> QED
      BY <1>7 DEF Sections
  <1>13. /\ bad = 0 <=> \A j \in 1 .. 3 : errors[j] = "none"
         /\ bad # 0 => bad \in 1 .. 3
         /\ bad \notin 1 .. sized => \A j \in 1 .. sized : errors[j] = "none"
    <2> HIDE DEF entry, all, errors
    <2>1. I \subseteq Nat \ {0}
      BY <1>4
    <2>2. \A j \in 1 .. 3 : j \in I <=> errors[j] # "none"
      BY <1>4, <1>6
    <2>3. \A i \in I : i \in 1 .. 3
      BY <1>4
    <2> HIDE DEF I, J, bad
    <2>4. bad = 0 <=> I = {}
      BY <2>1, FirstPlace DEF bad
    <2>5. bad # 0 => bad \in I
      BY <2>1, FirstPlace DEF bad
    <2>6. \A i \in I : bad <= i
      BY <2>1, FirstPlace DEF bad
    <2>7. bad = 0 <=> \A j \in 1 .. 3 : errors[j] = "none"
      BY <2>2, <2>3, <2>4
    <2>8. bad # 0 => bad \in 1 .. 3
      BY <2>3, <2>5
    <2>9. ASSUME bad \notin 1 .. sized, NEW j \in 1 .. sized PROVE errors[j] = "none"
      <3> HIDE DEF sized
      <3>1. j \in 1 .. 3
        BY <1>1
      <3>2. CASE bad = 0
        BY <2>7, <3>1, <3>2
      <3>3. CASE bad # 0
        <4>1. bad > sized
          BY <1>1, <2>8, <2>9, <3>3
        <4>2. j \notin I
          BY <1>1, <2>6, <2>8, <3>3, <4>1
        <4>3. QED
          BY <2>2, <3>1, <4>2
      <3>4. QED
        BY <3>2, <3>3
    <2>10. QED
      BY <2>7, <2>8, <2>9
  <1>14. bad \notin 1 .. sized => Cells(all, entry[sized - 1])[1].declares = v.declares
    <2> SUFFICES ASSUME bad \notin 1 .. sized
                 PROVE  Cells(all, entry[sized - 1])[1].declares = v.declares
      OBVIOUS
    <2> DEFINE i == at(sized - 1)
    <2>1. i \in 1 .. n /\ v.sections[i].type \in {"meta", "shape"}
      BY <1>1, <1>2
    <2> HIDE DEF i, entry, all, errors, bad, I, J, sized
    <2>2. sized - 1 \in 1 .. sized
      BY <1>1
    <2>3. Cells(all, entry[sized - 1]) = Payload(v, i)
      BY <1>1, <1>5, <1>13, <2>2 DEF i
    <2>4. 1 \in 1 .. v.sections[i].cells
      BY <2>1, ValueTypes
    <2>5. Payload(v, i)[1] = [kind |-> "data", of |-> v.id, part |-> i, at |-> 1,
                              declares |-> v.declares]
      BY <2>1, <2>4, PayloadTypes
    <2>6. QED
      BY <2>3, <2>5
  <1>15. entry[sized].cells = v.sections[at(sized)].cells
    BY <1>1, <1>5
  <1>16. bad = 0 => [k \in DOMAIN entry |-> Cells(all, entry[k])] = PayloadsOf(v)
    <2> HIDE DEF entry, all, at, errors, bad, I, J
    <2>1. bad = 0 => \A k \in 1 .. 3 : Cells(all, entry[k]) = Payload(v, at(k))
      BY <1>5, <1>13
    <2>2. QED
      BY <1>4, <1>10, <2>1
  <1>17. sized \in Nat /\ bad \in 0 .. 3
    BY <1>1, <1>13
  <1>18. bad # 0 => SectionError(all, entry[bad]) = errors[bad]
    BY <1>5, <1>13
  <1> HIDE DEF entry, all, at, errors, bad, I, J, sized, req
  <1>19. Sections(all, v.format, entry) = SectionsOutcome(v)
    <2>1. CASE bad \in 1 .. sized
      <3>1. bad # 0
        BY <2>1
      <3>2. QED
        BY <1>11, <1>12, <1>18, <2>1, <3>1
    <2>2. CASE bad \notin 1 .. sized /\ ~Fits(v)
      BY <1>9, <1>11, <1>12, <1>14, <1>15, <2>2
    <2>3. CASE bad \notin 1 .. sized /\ Fits(v) /\ bad # 0
      <3>1. bad > sized
        BY <1>17, <2>3
      <3>2. SectionsOutcome(v) = Error(errors[bad])
        BY <1>11, <2>3, <3>1
      <3>3. Sections(all, v.format, entry) = Error(SectionError(all, entry[bad]))
        BY <1>9, <1>12, <1>14, <1>15, <2>3
      <3>4. QED
        BY <1>18, <2>3, <3>2, <3>3
    <2>4. CASE bad \notin 1 .. sized /\ Fits(v) /\ bad = 0
      <3>1. ~(bad > sized)
        BY <1>17, <2>4
      <3>2. SectionsOutcome(v) = [ok |-> TRUE, payloads |-> PayloadsOf(v)]
        BY <1>11, <2>4, <3>1
      <3>3. Sections(all, v.format, entry) = [ok |-> TRUE, payloads |-> PayloadsOf(v)]
        BY <1>9, <1>12, <1>14, <1>15, <1>16, <2>4
      <3>4. QED
        BY <3>2, <3>3
    <2>5. QED
      BY <2>1, <2>2, <2>3, <2>4
  <1>20. SectionsOutcome(v).ok => bad = 0
    <2>1. ASSUME NEW e PROVE ~Error(e).ok
      BY DEF Error
    <2>2. CASE bad \in 1 .. sized
      BY <1>11, <2>1, <2>2
    <2>3. CASE bad \notin 1 .. sized /\ ~Fits(v)
      BY <1>11, <2>1, <2>3
    <2>4. CASE bad \notin 1 .. sized /\ Fits(v) /\ bad # 0
      <3>1. bad > sized
        BY <1>17, <2>4
      <3>2. QED
        BY <1>11, <2>1, <2>4, <3>1
    <2>5. QED
      BY <2>2, <2>3, <2>4
  <1>21. bad = 0 => \A j \in DOMAIN req : v.sections[at(j)].entry = "right"
    BY <1>1, <1>5, <1>13 DEF req
  <1>22. QED
    BY <1>19, <1>20, <1>21 DEF entry, all, at, req

\* The readers' outcome on a complete file is the one its contract says.
LEMMA ImageIsRead ==
    ASSUME NEW v \in Values, NEW format \in Formats
    PROVE  Read(Image(v), format) = Outcome(v, format)
  <1> DEFINE all == Image(v)
             body == Front(all)
             header == ReadHeader(body)
             req == Required(format)
             at == [j \in DOMAIN req |-> Locate(header.sections, req[j])]
             entry == [j \in DOMAIN req |-> header.sections[at[j]]]
  <1>1. Len(Body(v)) \in Nat /\ Len(Body(v)) >= HeaderCells + Len(v.sections) /\ Len(v.sections) \in Nat
    BY ImageIs, ValueTypes
  <1>2. Len(all) = Len(Body(v)) + TrailerCells
    BY ImageCells
  <1>3. ~(Len(all) < HeaderCells + TrailerCells)
    <2> HIDE DEF all
    <2> QED
      BY <1>1, <1>2 DEF HeaderCells, TrailerCells
  <1>4. body = Body(v) /\ Last(all) = Trailer(Body(v))
    BY ImageCells
  <1>5. TrailerFits(all)
    BY <1>4 DEF TrailerFits
  <1>6. header = [ok |-> TRUE, format |-> v.format, version |-> v.version, sections |-> Table(v)]
    <2>1. Body(v)[1] = HeaderOf(v)
      BY ImageIs
    <2>2. \A j \in 1 .. Len(v.sections) : Body(v)[HeaderCells + j] = EntryOf(v, j)
      BY ImageIs
    <2> HIDE DEF body
    <2>3. QED
      BY <1>1, <1>4, <2>1, <2>2, HeaderIsRead
  <1>7. Read(all, format) =
          IF ~header.ok THEN header
          ELSE IF header.format # format THEN Error("FormatMismatch")
          ELSE IF ~Compatible(header.version) THEN Error("UnsupportedVersion")
          ELSE IF \E j \in DOMAIN req : at[j] = 0 THEN Error("MissingSection")
          ELSE Sections(all, format, entry)
    BY <1>3, <1>5 DEF Read
  <1> HIDE DEF all, body, header
  <1>8. header.ok /\ header.format = v.format /\ header.version = v.version /\ header.sections = Table(v)
    BY <1>6
  <1>9. at = [j \in DOMAIN req |-> LastOf(v, req[j])]
    BY <1>8, LocateIs
  <1>10. (\E j \in DOMAIN req : at[j] = 0) <=> ~(ToSet(req) \subseteq Types(v))
    BY <1>9, LocateIs DEF ToSet
  <1>11. entry = [j \in DOMAIN req |-> Table(v)[LastOf(v, req[j])]]
    BY <1>8, <1>9
  <1>12. Compatible(v.version) <=> v.version = 1
    BY ValueTypes DEF Compatible
  <1> HIDE DEF at, entry, req
  <1>13. CASE v.format # format
    BY <1>7, <1>8, <1>13 DEF Outcome, all
  <1>14. CASE v.format = format /\ v.version # 1
    BY <1>7, <1>8, <1>12, <1>14 DEF Outcome, all
  <1>15. CASE v.format = format /\ v.version = 1
    <2>1. Outcome(v, format) = IF ToSet(req) \subseteq Types(v) THEN SectionsOutcome(v)
                                                              ELSE Error("MissingSection")
      BY <1>15 DEF Outcome, req
    <2>2. Read(all, format) = IF ~(ToSet(req) \subseteq Types(v)) THEN Error("MissingSection")
                              ELSE Sections(all, format, entry)
      BY <1>7, <1>8, <1>10, <1>12, <1>15
    <2>3. ToSet(req) \subseteq Types(v) => Sections(all, format, entry) = SectionsOutcome(v)
      BY <1>11, <1>15, SectionsAreRead DEF req, all
    <2>4. CASE ToSet(req) \subseteq Types(v)
      <3>1. Read(all, format) = Sections(all, format, entry)
        BY <2>2, <2>4
      <3>2. Outcome(v, format) = Sections(all, format, entry)
        BY <2>1, <2>3, <2>4
      <3>3. QED
        BY <3>1, <3>2 DEF all
    <2>5. CASE ~(ToSet(req) \subseteq Types(v))
      <3>1. Read(all, format) = Error("MissingSection")
        BY <2>2, <2>5
      <3>2. Outcome(v, format) = Error("MissingSection")
        BY <2>1, <2>5
      <3>3. QED
        BY <3>1, <3>2 DEF all
    <2>6. QED
      BY <2>4, <2>5
  <1>16. QED
    BY <1>13, <1>14, <1>15

------------------------------------------------------------------------------
(***************************************************************************)
(* The inductive invariant: what the writer relies on, that the file and   *)
(* the copy are sequences of cells, and that a trailer, wherever it is,    *)
(* is one that a writer computed over a whole body.  TypeOK alone is not   *)
(* inductive: the file's first cell is a header and its length is bounded  *)
(* because the writer never skips a cell.                                  *)
(***************************************************************************)
WriterInv ==
    /\ writing \in begun \cup {NoValue}
    /\ wrote \in Nat
    /\ writing # NoValue => wrote <= Len(file)

IsCell(c) == "kind" \in DOMAIN c /\ (c.kind = "header" => "count" \in DOMAIN c /\ c.count \in Nat)

CellsInv ==
    /\ file \in Seq(ToSet(file))
    /\ buf \in Seq(ToSet(buf))
    /\ \A i \in DOMAIN file : IsCell(file[i])

Vouched(cells) ==
    \A i \in DOMAIN cells :
        cells[i].kind = "trailer" => \E v \in begun : cells[i] = Trailer(Body(v))

IInv == TypeOK /\ WriterInv /\ CellsInv /\ Vouched(file) /\ Vouched(buf)

\* The cells of an image: each has a kind, the first is a header, and only
\* the last is a trailer.
LEMMA ImageKinds ==
    ASSUME NEW v \in Values
    PROVE  /\ Len(Image(v)) \in Nat
           /\ Image(v)[1].kind = "header"
           /\ \A p \in 1 .. Len(Image(v)) :
                 /\ IsCell(Image(v)[p])
                 /\ Image(v)[p].kind = "trailer" => Image(v)[p] = Trailer(Body(v))
  <1> DEFINE S == BodyCells(v) \cup {Trailer(Body(v))}
             all == Image(v)
  <1>1. all \in Seq(S)
    BY ImageCells
  <1>2. Len(all) \in Nat
    BY <1>1, LenProperties
  <1>3. \A c \in BodyCells(v) : IsCell(c) /\ c.kind # "trailer"
    <2>1. HeaderOf(v).kind = "header" /\ IsCell(HeaderOf(v))
      BY ValueTypes DEF HeaderOf, IsCell
    <2>2. \A c \in EntryCells(v) : IsCell(c) /\ c.kind = "entry"
      BY DEF EntryCells, EntryOf, IsCell
    <2>3. \A c \in DataCells(v) : IsCell(c) /\ c.kind = "data"
      BY DEF DataCells, IsCell
    <2>4. QED
      BY <2>1, <2>2, <2>3 DEF BodyCells
  <1>4. IsCell(Trailer(Body(v)))
    BY DEF Trailer, IsCell
  <1>5. ASSUME NEW p \in 1 .. Len(all)
        PROVE  /\ IsCell(all[p])
               /\ all[p].kind = "trailer" => all[p] = Trailer(Body(v))
    <2>1. all[p] \in S
      BY <1>1, ElementOfSeq
    <2>2. CASE all[p] \in BodyCells(v)
      BY <1>3, <2>2
    <2>3. CASE all[p] = Trailer(Body(v))
      BY <1>4, <2>3
    <2>4. QED
      BY <2>1, <2>2, <2>3
  <1>6. all[1].kind = "header"
    <2>1. Len(Body(v)) \in Nat /\ Len(Body(v)) >= HeaderCells + Len(v.sections) /\ Len(v.sections) \in Nat
      BY ImageIs, ValueTypes
    <2>2. 1 \in 1 .. Len(Body(v))
      BY <2>1 DEF HeaderCells
    <2>3. all[1] = HeaderOf(v)
      BY <2>2, ImageIs, ImageCells
    <2>4. QED
      BY <2>3 DEF HeaderOf
  <1>7. QED
    BY <1>2, <1>5, <1>6

\* Damage makes no trailer, and leaves a header a header.
LEMMA FlippedKinds ==
    ASSUME NEW cell, IsCell(cell), NEW new \in Flipped(cell)
    PROVE  /\ IsCell(new)
           /\ new.kind # "trailer"
           /\ cell.kind = "header" => new.kind = "header"
  <1>1. CASE cell.kind = "header"
    <2>1. \/ \E f : new = [cell EXCEPT !.format = f]
          \/ new = [cell EXCEPT !.magic = FALSE]
          \/ new = [cell EXCEPT !.version = 0]
          \/ new = [cell EXCEPT !.table = FALSE]
          \/ new = [cell EXCEPT !.count = @ + 1]
          \/ new = [cell EXCEPT !.rest = "flipped"]
      BY <1>1 DEF Flipped
    <2>2. DOMAIN new = DOMAIN cell /\ new.kind = cell.kind
      BY <2>1 DEF IsCell
    <2>3. "count" \in DOMAIN cell /\ cell.count \in Nat
      BY <1>1 DEF IsCell
    <2>4. new.count = cell.count \/ new.count = cell.count + 1
      BY <2>1, <2>3
    <2>5. QED
      BY <1>1, <2>2, <2>3, <2>4 DEF IsCell
  <1>2. CASE cell.kind = "entry"
    <2>1. \/ new = [cell EXCEPT !.type = "flipped"]
          \/ new = [cell EXCEPT !.offset = @ + 1]
          \/ new = [cell EXCEPT !.cells = @ + 1]
          \/ new = [cell EXCEPT !.checksum = Crc(<<>>)]
      BY <1>2 DEF Flipped
    <2>2. DOMAIN new = DOMAIN cell /\ new.kind = cell.kind
      BY <2>1 DEF IsCell
    <2>3. QED
      BY <1>2, <2>2 DEF IsCell
  <1>3. CASE cell.kind # "header" /\ cell.kind # "entry"
    <2>1. new = [kind |-> "flipped"]
      BY <1>3 DEF Flipped
    <2>2. QED
      BY <1>3, <2>1 DEF IsCell
  <1>4. QED
    BY <1>1, <1>2, <1>3

\* A write, damage or a read changes the file or the copy into a sequence whose
\* cells it had, cells of an image whose write has begun, or no trailers.
LEMMA FileStep ==
    ASSUME CellsInv, Vouched(file), begun \subseteq begun', file' \in Seq(ToSet(file')),
           \A i \in 1 .. Len(file') :
              \/ i \in 1 .. Len(file) /\ file'[i] = file[i]
              \/ /\ IsCell(file'[i])
                 /\ file'[i].kind = "trailer" => \E v \in begun' : file'[i] = Trailer(Body(v))
    PROVE  /\ \A i \in DOMAIN file' : IsCell(file'[i])
           /\ Vouched(file)'
  <1>1. DOMAIN file' = 1 .. Len(file') /\ DOMAIN file = 1 .. Len(file)
    BY OfItsElements DEF CellsInv
  <1>2. ASSUME NEW i \in DOMAIN file'
        PROVE  /\ IsCell(file'[i])
               /\ file'[i].kind = "trailer" => \E v \in begun' : file'[i] = Trailer(Body(v))
    <2>1. CASE i \in 1 .. Len(file) /\ file'[i] = file[i]
      <3>1. IsCell(file[i])
        BY <1>1, <2>1 DEF CellsInv
      <3>2. file[i].kind = "trailer" => \E v \in begun : file[i] = Trailer(Body(v))
        BY <1>1, <2>1 DEF Vouched
      <3>3. QED
        BY <2>1, <3>1, <3>2
    <2>2. CASE ~(i \in 1 .. Len(file) /\ file'[i] = file[i])
      BY <1>1, <2>2
    <2>3. QED
      BY <2>1, <2>2
  <1>3. QED
    BY <1>2 DEF Vouched

\* A trailer that a step leaves where it is stays one of a write begun.
LEMMA VouchedStays ==
    ASSUME NEW s, Vouched(s), begun \subseteq begun'
    PROVE  \A i \in DOMAIN s : s[i].kind = "trailer" => \E v \in begun' : s[i] = Trailer(Body(v))
  BY DEF Vouched

LEMMA InitIInv == ASSUME Init PROVE IInv
  <1>1. <<>> \in Seq(ToSet(<<>>)) /\ DOMAIN <<>> = {} /\ Len(<<>>) = 0
    <2>1. <<>> \in Seq({})
      OBVIOUS
    <2>2. QED
      BY <2>1, OfItsElements
  <1>2. file = <<>> /\ buf = <<>> /\ writing = NoValue /\ wrote = 0 /\ begun = {} /\ events = 0
        /\ reading = "none"
    BY DEF Init
  <1>3. TypeOK
    BY <1>2, BoundIsNat DEF TypeOK
  <1>4. WriterInv
    BY <1>2 DEF WriterInv
  <1>5. CellsInv /\ Vouched(file) /\ Vouched(buf)
    BY <1>1, <1>2 DEF CellsInv, Vouched
  <1>6. QED
    BY <1>3, <1>4, <1>5 DEF IInv

LEMMA StutterIInv == ASSUME IInv, UNCHANGED vars PROVE IInv'
  BY DEF IInv, TypeOK, WriterInv, CellsInv, Vouched, vars, diskVars, readVars

\* A write that is refused, ends or is killed leaves the file alone.
LEMMA WriteRefusedIInv == ASSUME IInv, NEW v \in Values, WriteRefused(v) PROVE IInv'
  <1>1. /\ events' \in 0 .. MaxEvents
        /\ UNCHANGED <<file, writing, wrote, begun, reading, buf>>
    BY BoundIsNat DEF WriteRefused, IInv, TypeOK, readVars
  <1>2. QED
    BY <1>1 DEF IInv, TypeOK, WriterInv, CellsInv, Vouched

LEMMA WriteEndsIInv == ASSUME IInv, WriteEnds PROVE IInv'
  <1>1. /\ writing' = NoValue
        /\ UNCHANGED <<file, wrote, begun, events, reading, buf>>
    BY DEF WriteEnds, readVars
  <1>2. QED
    BY <1>1 DEF IInv, TypeOK, WriterInv, CellsInv, Vouched

\* A write begins with the file as it is or empty.
LEMMA WriteBeginIInv == ASSUME IInv, NEW v \in Values, WriteBegin(v) PROVE IInv'
  <1>1. /\ events' \in 0 .. MaxEvents
        /\ writing' = v /\ wrote' = 0 /\ begun' = begun \cup {v}
        /\ file' \in {file, <<>>}
        /\ UNCHANGED <<reading, buf>>
    BY BoundIsNat DEF WriteBegin, IInv, TypeOK, readVars
  <1>2. file' \in Seq(ToSet(file')) /\ Len(file') \in Nat
    <2>1. <<>> \in Seq({})
      OBVIOUS
    <2>2. CASE file' = <<>>
      BY <2>1, <2>2, OfItsElements
    <2>3. CASE file' = file
      BY <2>3, OfItsElements DEF IInv, CellsInv
    <2>4. QED
      BY <1>1, <2>2, <2>3
  <1>3. begun \subseteq begun' /\ begun' \subseteq Values
    BY <1>1 DEF IInv, TypeOK
  <1>4. TypeOK'
    <2>1. file' # <<>> => file' = file
      BY <1>1
    <2>2. file' # <<>> => /\ file'[1].kind = "header"
                          /\ \E w \in begun' : Len(file') <= Len(Image(w))
      BY <1>3, <2>1 DEF IInv, TypeOK
    <2>3. QED
      BY <1>1, <1>3, <2>2 DEF IInv, TypeOK
  <1>5. WriterInv'
    BY <1>1, <1>2 DEF WriterInv
  <1>6. \A i \in 1 .. Len(file') : i \in 1 .. Len(file) /\ file'[i] = file[i]
    <2>1. CASE file' = <<>>
      BY <2>1
    <2>2. CASE file' = file
      BY <2>2
    <2>3. QED
      BY <1>1, <2>1, <2>2
  <1>7. (\A i \in DOMAIN file' : IsCell(file'[i])) /\ Vouched(file)'
    BY <1>2, <1>3, <1>6, FileStep DEF IInv
  <1>8. CellsInv'
    BY <1>1, <1>2, <1>7 DEF IInv, CellsInv
  <1>9. Vouched(buf)'
    BY <1>1, <1>3, VouchedStays DEF IInv, Vouched
  <1>10. QED
    BY <1>4, <1>5, <1>7, <1>8, <1>9 DEF IInv

\* A cell is written over what is there or behind the last cell, so that the
\* file is never longer than the image of some value whose write has begun.
LEMMA WriteCellIInv == ASSUME IInv, WriteCell PROVE IInv'
  <1> DEFINE v == writing
             cell == Image(v)[wrote + 1]
             p == wrote + 1
             L == Len(file)
  <1>1. /\ v # NoValue /\ wrote < Len(Image(v))
        /\ file' = IF wrote < L THEN ReplaceAt(file, p, cell) ELSE Append(file, cell)
        /\ wrote' = p
        /\ UNCHANGED <<writing, begun, events, reading, buf>>
    BY DEF WriteCell, readVars
  <1>2. v \in begun /\ v \in Values /\ wrote \in Nat /\ wrote <= L /\ begun \subseteq Values
    BY <1>1 DEF IInv, TypeOK, WriterInv
  <1>3. file \in Seq(ToSet(file)) /\ L \in Nat
    BY OfItsElements DEF IInv, CellsInv
  <1>4. Len(Image(v)) \in Nat /\ p \in 1 .. Len(Image(v))
    <2>1. Len(Image(v)) \in Nat
      BY <1>2, ImageKinds
    <2> HIDE DEF v
    <2>2. QED
      BY <1>1, <1>2, <2>1
  <1>5. /\ IsCell(cell)
        /\ cell.kind = "trailer" => cell = Trailer(Body(v))
        /\ p = 1 => cell.kind = "header"
    BY <1>2, <1>4, ImageKinds
  <1> HIDE DEF v, cell, L
  <1>6. /\ file' \in Seq(ToSet(file'))
        /\ Len(file') = IF wrote < L THEN L ELSE p
        /\ \A i \in 1 .. Len(file') : file'[i] = IF i = p THEN cell ELSE file[i]
        /\ \A i \in 1 .. Len(file') : i # p => i \in 1 .. L
    <2>1. CASE wrote < L
      <3>1. p \in 1 .. L
        BY <1>2, <1>3, <2>1
      <3>2. file' = ReplaceAt(file, p, cell)
        BY <1>1, <2>1
      <3> HIDE DEF p
      <3>3. /\ ReplaceAt(file, p, cell) \in Seq(ToSet(ReplaceAt(file, p, cell)))
            /\ Len(ReplaceAt(file, p, cell)) = L
        BY <1>3, <3>1, Replaced DEF L
      <3>4. \A i \in 1 .. L : ReplaceAt(file, p, cell)[i] = IF i = p THEN cell ELSE file[i]
        BY <1>3, <3>1, Replaced DEF L
      <3>5. QED
        BY <2>1, <3>2, <3>3, <3>4
    <2>2. CASE ~(wrote < L)
      <3>1. p = L + 1
        BY <1>2, <1>3, <2>2
      <3>2. file' = Append(file, cell)
        BY <1>1, <2>2
      <3>3. /\ Append(file, cell) \in Seq(ToSet(Append(file, cell)))
            /\ Len(Append(file, cell)) = L + 1 /\ Append(file, cell)[L + 1] = cell
        BY <1>3, Appended DEF L
      <3>4. \A i \in 1 .. L : Append(file, cell)[i] = file[i]
        BY <1>3, Appended DEF L
      <3>5. Len(file') = p /\ file'[p] = cell /\ file' \in Seq(ToSet(file'))
        BY <3>1, <3>2, <3>3
      <3> HIDE DEF p
      <3>6. \A i \in 1 .. p : i # p => i \in 1 .. L /\ file'[i] = file[i]
        <4>1. \A i \in 1 .. p : i # p => i \in 1 .. L
          BY <1>3, <3>1
        <4>2. \A i \in 1 .. L : file'[i] = file[i]
          BY <3>2, <3>4
        <4>3. QED
          BY <4>1, <4>2
      <3>7. QED
        BY <2>2, <3>5, <3>6
    <2>3. QED
      BY <2>1, <2>2
  <1>7. (\A i \in DOMAIN file' : IsCell(file'[i])) /\ Vouched(file)'
    <2>1. ASSUME NEW i \in 1 .. Len(file')
          PROVE  \/ i \in 1 .. Len(file) /\ file'[i] = file[i]
                 \/ /\ IsCell(file'[i])
                    /\ file'[i].kind = "trailer" => \E w \in begun' : file'[i] = Trailer(Body(w))
      <3>1. CASE i = p
        BY <1>1, <1>2, <1>5, <1>6, <3>1
      <3>2. CASE i # p
        <4> HIDE DEF p
        <4> QED
          BY <1>6, <3>2 DEF L
      <3>3. QED
        BY <3>1, <3>2
    <2>2. QED
      BY <1>1, <1>6, <2>1, FileStep DEF IInv
  <1>8. p \in Nat /\ p <= Len(file') /\ Len(file') \in Nat
    BY <1>2, <1>3, <1>6
  <1>9. file'[1].kind = "header"
    <2>1. CASE p = 1
      BY <1>5, <1>6, <1>8, <2>1
    <2>2. CASE p # 1
      <3>1. 1 \in 1 .. Len(file') /\ 1 # p
        BY <1>2, <1>8, <2>2
      <3>2. file'[1] = file[1] /\ 1 \in 1 .. L
        <4> HIDE DEF p
        <4> QED
          BY <1>6, <3>1
      <3>3. file # <<>>
        BY <1>3, <3>2 DEF L
      <3>4. QED
        BY <3>2, <3>3 DEF IInv, TypeOK
    <2>3. QED
      BY <2>1, <2>2
  <1>10. \E w \in begun' : Len(file') <= Len(Image(w))
    <2>1. CASE wrote < L
      <3>1. file # <<>>
        BY <1>2, <1>3, <2>1 DEF L
      <3>2. PICK w \in begun : Len(file) <= Len(Image(w))
        BY <3>1 DEF IInv, TypeOK
      <3>3. QED
        BY <1>1, <1>6, <2>1, <3>2 DEF L
    <2>2. CASE ~(wrote < L)
      BY <1>1, <1>2, <1>4, <1>6, <2>2
    <2>3. QED
      BY <2>1, <2>2
  <1>11. TypeOK'
    BY <1>1, <1>9, <1>10 DEF IInv, TypeOK
  <1>12. WriterInv'
    BY <1>1, <1>8 DEF IInv, WriterInv
  <1>13. CellsInv' /\ Vouched(buf)'
    BY <1>1, <1>6, <1>7 DEF IInv, CellsInv, Vouched
  <1>14. QED
    BY <1>7, <1>11, <1>12, <1>13 DEF IInv

\* Damage to one cell.
LEMMA FlipIInv == ASSUME IInv, NEW i \in DOMAIN file, Flip(i) PROVE IInv'
  <1>1. PICK cell \in Flipped(file[i]) : file' = ReplaceAt(file, i, cell)
    BY DEF Flip
  <1>2. /\ events' \in 0 .. MaxEvents
        /\ writing = NoValue
        /\ UNCHANGED <<writing, wrote, begun, reading, buf>>
    BY BoundIsNat DEF Flip, IInv, TypeOK, readVars
  <1>3. file \in Seq(ToSet(file)) /\ Len(file) \in Nat /\ i \in 1 .. Len(file)
    BY OfItsElements DEF IInv, CellsInv
  <1>4. /\ IsCell(cell) /\ cell.kind # "trailer"
        /\ file[i].kind = "header" => cell.kind = "header"
    BY FlippedKinds DEF IInv, CellsInv
  <1>5. file' \in Seq(ToSet(file')) /\ Len(file') = Len(file)
    BY <1>1, <1>3, Replaced
  <1>6. \A j \in 1 .. Len(file) : file'[j] = IF j = i THEN cell ELSE file[j]
    BY <1>1, <1>3, Replaced
  <1>7. (\A j \in DOMAIN file' : IsCell(file'[j])) /\ Vouched(file)'
    BY <1>2, <1>4, <1>5, <1>6, FileStep DEF IInv
  <1>8. /\ file'[1].kind = "header"
        /\ \E v \in begun : Len(file') <= Len(Image(v))
    <2>1. file # <<>> /\ 1 \in 1 .. Len(file)
      BY <1>3
    <2>2. file[1].kind = "header" /\ \E v \in begun : Len(file) <= Len(Image(v))
      BY <2>1 DEF IInv, TypeOK
    <2>3. QED
      BY <1>4, <1>5, <1>6, <2>1, <2>2
  <1>9. TypeOK'
    BY <1>2, <1>8 DEF IInv, TypeOK
  <1>10. WriterInv' /\ CellsInv' /\ Vouched(buf)'
    BY <1>2, <1>5, <1>7 DEF IInv, WriterInv, CellsInv, Vouched
  <1>11. QED
    BY <1>7, <1>9, <1>10 DEF IInv

\* A tail cut off.
LEMMA TruncateIInv == ASSUME IInv, NEW i \in DOMAIN file, Truncate(i - 1) PROVE IInv'
  <1> DEFINE n == i - 1
  <1>1. /\ events' \in 0 .. MaxEvents
        /\ writing = NoValue
        /\ file' = SubSeq(file, 1, n)
        /\ UNCHANGED <<writing, wrote, begun, reading, buf>>
    BY BoundIsNat DEF Truncate, IInv, TypeOK, readVars
  <1>2. file \in Seq(ToSet(file)) /\ Len(file) \in Nat /\ i \in 1 .. Len(file)
    BY OfItsElements DEF IInv, CellsInv
  <1>3. n \in 0 .. Len(file)
    BY <1>2
  <1> HIDE DEF n
  <1>4. file' \in Seq(ToSet(file')) /\ Len(file') = n
    BY <1>1, <1>2, <1>3, Prefix
  <1>5. \A j \in 1 .. n : file'[j] = file[j] /\ j \in 1 .. Len(file)
    BY <1>1, <1>2, <1>3, Prefix
  <1>6. (\A j \in DOMAIN file' : IsCell(file'[j])) /\ Vouched(file)'
    BY <1>1, <1>4, <1>5, FileStep DEF IInv
  <1>7. file' # <<>> => /\ file'[1].kind = "header"
                        /\ \E v \in begun : Len(file') <= Len(Image(v))
    <2>1. file # <<>>
      BY <1>2
    <2>2. file[1].kind = "header"
      BY <2>1 DEF IInv, TypeOK
    <2>3. PICK v \in begun : Len(file) <= Len(Image(v))
      BY <2>1 DEF IInv, TypeOK
    <2>4. Len(Image(v)) \in Nat
      BY <2>3, ImageKinds DEF IInv, TypeOK
    <2>5. Len(file') <= Len(Image(v))
      BY <1>2, <1>3, <1>4, <2>3, <2>4
    <2>6. file' # <<>> => 1 \in 1 .. n
      BY <1>3, <1>4
    <2>7. QED
      BY <1>5, <2>2, <2>5, <2>6
  <1>8. TypeOK'
    BY <1>1, <1>7 DEF IInv, TypeOK
  <1>9. WriterInv' /\ CellsInv' /\ Vouched(buf)'
    BY <1>1, <1>4, <1>6 DEF IInv, WriterInv, CellsInv, Vouched
  <1>10. QED
    BY <1>6, <1>8, <1>9 DEF IInv

\* The reader leaves the file alone and copies what is in it.
LEMMA ReaderIInv ==
    ASSUME IInv, (\E format \in Formats : ReadBegin(format)) \/ ReadMore \/ ReadEnd
    PROVE  IInv'
  <1>1. UNCHANGED <<file, writing, wrote, begun, events>>
    BY DEF ReadBegin, ReadMore, ReadEnd, diskVars
  <1>2. reading' \in Formats \cup {"none"}
    BY DEF IInv, TypeOK, ReadBegin, ReadMore, ReadEnd
  <1>3. buf' \in Seq(ToSet(buf')) /\ Vouched(buf)'
    <2>1. CASE buf' = <<>>
      <3>1. <<>> \in Seq({})
        OBVIOUS
      <3>2. buf' \in Seq(ToSet(buf'))
        BY <2>1, <3>1, OfItsElements
      <3>3. Vouched(buf)'
        BY <2>1 DEF Vouched
      <3>4. QED
        BY <3>2, <3>3
    <2>2. CASE ReadMore
      <3> DEFINE e == file[Len(buf) + 1]
      <3>1. buf' = Append(buf, e) /\ Len(buf) < Len(file)
        BY <2>2 DEF ReadMore
      <3>2. /\ buf \in Seq(ToSet(buf)) /\ Len(buf) \in Nat /\ DOMAIN buf = 1 .. Len(buf)
            /\ Len(file) \in Nat /\ DOMAIN file = 1 .. Len(file)
        BY OfItsElements DEF IInv, CellsInv
      <3>3. Len(buf) + 1 \in DOMAIN file
        BY <3>1, <3>2
      <3>4. e.kind = "trailer" => \E v \in begun : e = Trailer(Body(v))
        BY <3>3 DEF IInv, Vouched
      <3> HIDE DEF e
      <3>5. buf' \in Seq(ToSet(buf')) /\ Len(buf') = Len(buf) + 1 /\ buf'[Len(buf) + 1] = e
        BY <3>1, <3>2, Appended
      <3>6. \A i \in 1 .. Len(buf) : buf'[i] = buf[i]
        BY <3>1, <3>2, Appended
      <3>7. DOMAIN buf' = 1 .. Len(buf) + 1
        BY <3>5, OfItsElements
      <3>8. ASSUME NEW i \in DOMAIN buf', buf'[i].kind = "trailer"
            PROVE  \E v \in begun : buf'[i] = Trailer(Body(v))
        <4>1. i = Len(buf) + 1 \/ i \in 1 .. Len(buf)
          BY <3>2, <3>7
        <4>2. QED
          BY <3>2, <3>4, <3>5, <3>6, <3>8, <4>1 DEF IInv, Vouched
      <3>9. QED
        BY <1>1, <3>5, <3>8 DEF Vouched
    <2>3. QED
      BY <2>1, <2>2 DEF ReadBegin, ReadEnd
  <1>4. TypeOK' /\ WriterInv' /\ CellsInv' /\ Vouched(file)'
    BY <1>1, <1>2, <1>3 DEF IInv, TypeOK, WriterInv, CellsInv, Vouched
  <1>5. QED
    BY <1>3, <1>4 DEF IInv

LEMMA NextIInv == ASSUME IInv, [Next]_vars PROVE IInv'
  <1>1. CASE \E v \in Values : WriteRefused(v) \/ WriteBegin(v)
    BY <1>1, WriteRefusedIInv, WriteBeginIInv
  <1>2. CASE WriteCell
    BY <1>2, WriteCellIInv
  <1>3. CASE WriteEnds
    BY <1>3, WriteEndsIInv
  <1>4. CASE \E i \in DOMAIN file : Flip(i) \/ Truncate(i - 1)
    BY <1>4, FlipIInv, TruncateIInv
  <1>5. CASE (\E format \in Formats : ReadBegin(format)) \/ ReadMore \/ ReadEnd
    BY <1>5, ReaderIInv
  <1>6. CASE UNCHANGED vars
    BY <1>6, StutterIInv
  <1>7. QED
    BY <1>1, <1>2, <1>3, <1>4, <1>5, <1>6 DEF Next

LEMMA AlwaysIInv == Spec => []IInv
  <1>1. Init => IInv
    BY InitIInv
  <1>2. IInv /\ [Next]_vars => IInv'
    BY NextIInv
  <1>3. QED
    BY <1>1, <1>2, PTL DEF Spec

\* The variables keep their types: the file begins with a header and is never
\* longer than the longest image whose write has begun (write_saga and
\* write_kv_cache write one buffer from the start of the file).
THEOREM FileTypeCorrect == Spec => []TypeOK
  <1>1. IInv => TypeOK
    BY DEF IInv
  <1>2. QED
    BY <1>1, AlwaysIInv, PTL

------------------------------------------------------------------------------
(***************************************************************************)
(* What a reader accepts.                                                  *)
(***************************************************************************)

\* What the contract accepts.
LEMMA OutcomeOk ==
    ASSUME NEW v, NEW format, Outcome(v, format).ok
    PROVE  /\ v.format = format /\ ToSet(Required(format)) \subseteq Types(v)
           /\ Outcome(v, format) = SectionsOutcome(v)
           /\ Outcome(v, format) = [ok |-> TRUE, payloads |-> PayloadsOf(v)]
  <1>1. ASSUME NEW e PROVE ~Error(e).ok
    BY DEF Error
  <1>2. /\ v.format = format /\ ToSet(Required(format)) \subseteq Types(v)
        /\ Outcome(v, format) = SectionsOutcome(v)
    BY <1>1 DEF Outcome
  <1>3. SectionsOutcome(v) = [ok |-> TRUE, payloads |-> PayloadsOf(v)]
    <2> DEFINE req == Required(v.format)
               errors == [j \in DOMAIN req |->
                   EntryError(v.sections[SelectLastInSeq(v.sections, LAMBDA s : s.type = req[j])])]
               bad == SelectInSeq(errors, LAMBDA e : e # "none")
               read == [ok |-> TRUE, payloads |-> PayloadsOf(v)]
    <2>1. SectionsOutcome(v) =
            CASE bad \in 1 .. Sized(v.format) -> Error(errors[bad])
              [] bad \notin 1 .. Sized(v.format) /\ ~Fits(v) -> Error("Malformed")
              [] bad > Sized(v.format) /\ Fits(v) -> Error(errors[bad])
              [] OTHER -> read
      BY DEF SectionsOutcome
    <2> HIDE DEF req, errors, bad, read
    <2>2. (\E e : SectionsOutcome(v) = Error(e)) \/ SectionsOutcome(v) = read
      BY <2>1
    <2>3. SectionsOutcome(v) = read
      BY <1>1, <1>2, <2>2
    <2>4. QED
      BY <2>3 DEF read
  <1>4. QED
    BY <1>2, <1>3

\* What read_saga or read_kv_cache accepts is the whole image of one value, and
\* the reader returns what it returns for that image.
LEMMA AcceptedWasWritten ==
    ASSUME begun \subseteq Values, NEW all, all \in Seq(ToSet(all)), Vouched(all),
           NEW format \in Formats, Read(all, format).ok
    PROVE  \E v \in begun : all = Image(v) /\ Read(all, format) = Outcome(v, format)
  <1>1. Len(all) \in Nat /\ DOMAIN all = 1 .. Len(all)
    BY OfItsElements
  <1>2. ~(Len(all) < HeaderCells + TrailerCells) /\ TrailerFits(all)
    <2>1. ASSUME NEW e PROVE ~Error(e).ok
      BY DEF Error
    <2>2. CASE Len(all) < HeaderCells + TrailerCells
      BY <2>1, <2>2 DEF Read
    <2>3. CASE ~(Len(all) < HeaderCells + TrailerCells) /\ ~TrailerFits(all)
      BY <2>1, <2>3 DEF Read
    <2>4. QED
      BY <2>2, <2>3
  <1>3. Len(all) > 0 /\ Len(all) \in DOMAIN all
    BY <1>1, <1>2 DEF HeaderCells, TrailerCells
  <1>4. Last(all).kind = "trailer"
    BY <1>2 DEF TrailerFits, Trailer
  <1>5. PICK v \in begun : Last(all) = Trailer(Body(v))
    BY <1>3, <1>4 DEF Vouched, Last
  <1>6. all = Image(v)
    BY <1>2, <1>3, <1>5, AcceptedIsImage
  <1>7. QED
    BY <1>6, ImageIsRead

\* A value that a reader returns was written, entire, however the copy was
\* interleaved with writes and whatever was damaged (read_to_end, then the
\* trailing CRC of read_saga and read_kv_cache).
THEOREM ReadsNeverMixed == Spec => []ReadNeverMixed
  <1>1. Init => ReadNeverMixed
    BY DEF Init, ReadNeverMixed, Error
  <1>2. IInv /\ ReadNeverMixed /\ [Next]_vars => ReadNeverMixed'
    <2> SUFFICES ASSUME IInv, ReadNeverMixed, [Next]_vars PROVE ReadNeverMixed'
      OBVIOUS
    <2>1. CASE UNCHANGED result /\ begun \subseteq begun'
      BY <2>1 DEF ReadNeverMixed
    <2>2. ASSUME NEW format \in Formats, ReadBegin(format) PROVE ReadNeverMixed'
      <3>1. ~result'.ok
        BY <2>2 DEF ReadBegin, Error
      <3>2. QED
        BY <3>1 DEF ReadNeverMixed
    <2>3. CASE ReadEnd
      <3>1. /\ reading \in Formats /\ result' = Read(buf, reading) /\ begun' = begun
            /\ begun \subseteq Values
        BY <2>3 DEF ReadEnd, IInv, TypeOK, diskVars
      <3>2. SUFFICES ASSUME Read(buf, reading).ok
                     PROVE  \E v \in begun : /\ ToSet(Required(v.format)) \subseteq Types(v)
                                             /\ result'.payloads = PayloadsOf(v)
        BY <3>1 DEF ReadNeverMixed
      <3>3. PICK v \in begun : Read(buf, reading) = Outcome(v, reading)
        BY <3>1, <3>2, AcceptedWasWritten DEF IInv, CellsInv
      <3>4. Outcome(v, reading).ok
        BY <3>2, <3>3
      <3>5. /\ v.format = reading /\ ToSet(Required(reading)) \subseteq Types(v)
            /\ Outcome(v, reading) = [ok |-> TRUE, payloads |-> PayloadsOf(v)]
        BY <3>4, OutcomeOk
      <3>6. QED
        BY <3>1, <3>3, <3>5
    <2>4. (UNCHANGED result /\ begun \subseteq begun')
            \/ (\E format \in Formats : ReadBegin(format)) \/ ReadEnd
      <3>1. ASSUME NEW v \in Values, WriteRefused(v) \/ WriteBegin(v)
            PROVE  UNCHANGED result /\ begun \subseteq begun'
        BY <3>1 DEF WriteRefused, WriteBegin, readVars
      <3>2. WriteCell \/ WriteEnds \/ ReadMore => UNCHANGED result /\ begun \subseteq begun'
        BY DEF WriteCell, WriteEnds, ReadMore, readVars, diskVars
      <3>3. ASSUME NEW i \in DOMAIN file, Flip(i) \/ Truncate(i - 1)
            PROVE  UNCHANGED result /\ begun \subseteq begun'
        BY <3>3 DEF Flip, Truncate, readVars
      <3>4. UNCHANGED vars => UNCHANGED result /\ begun \subseteq begun'
        BY DEF vars, readVars, diskVars
      <3>5. QED
        BY <3>1, <3>2, <3>3, <3>4 DEF Next
    <2>5. QED
      BY <2>1, <2>2, <2>3, <2>4
  <1>3. QED
    BY <1>1, <1>2, AlwaysIInv, PTL DEF Spec

\* A complete file is read as its format's contract says, whatever sections it
\* has (read_saga, read_kv_cache, check_compatibility).
THEOREM ReadsKeepContract == Spec => []ReadOutcome
  <1>1. IInv => ReadOutcome
    BY ImageIsRead DEF IInv, TypeOK, ReadOutcome
  <1>2. QED
    BY <1>1, AlwaysIInv, PTL

------------------------------------------------------------------------------
(***************************************************************************)
(* What scrub_file says.                                                   *)
(***************************************************************************)

\* The report on any cells that begin with the header and table of a value: one
\* finding for each section.
LEMMA ScrubIs ==
    ASSUME NEW v \in Values, NEW all, Len(all) \in Nat,
           Len(all) >= HeaderCells + Len(v.sections), all[1] = HeaderOf(v),
           \A j \in 1 .. Len(v.sections) : all[HeaderCells + j] = EntryOf(v, j)
    PROVE  ScrubFile(all) = [header |-> "none",
                             findings |-> [j \in 1 .. Len(v.sections) |->
                                 [type |-> v.sections[j].type,
                                  outcome |-> Verify(all, EntryOf(v, j))]]]
  <1> DEFINE h == ReadHeader(all)
             n == Len(v.sections)
  <1>1. h = [ok |-> TRUE, format |-> v.format, version |-> v.version, sections |-> Table(v)]
    BY HeaderIsRead
  <1>2. ScrubFile(all) =
          IF ~h.ok THEN [header |-> h.error, findings |-> <<>>]
          ELSE [header |-> "none",
                findings |-> [j \in DOMAIN h.sections |->
                    [type |-> h.sections[j].type, outcome |-> Verify(all, h.sections[j])]]]
    BY DEF ScrubFile
  <1> HIDE DEF h
  <1>3. h.ok /\ h.sections = Table(v)
    BY <1>1
  <1>4. DOMAIN Table(v) = 1 .. n /\ \A j \in 1 .. n : Table(v)[j] = EntryOf(v, j)
    BY DEF Table
  <1>5. \A j \in 1 .. n : EntryOf(v, j).type = v.sections[j].type
    BY EntryIs
  <1> DEFINE F == [j \in DOMAIN Table(v) |->
                      [type |-> Table(v)[j].type, outcome |-> Verify(all, Table(v)[j])]]
             G == [j \in 1 .. n |->
                      [type |-> v.sections[j].type, outcome |-> Verify(all, EntryOf(v, j))]]
  <1>6. F = G
    BY <1>4, <1>5
  <1>7. ScrubFile(all) = [header |-> "none", findings |-> F]
    BY <1>2, <1>3
  <1> HIDE DEF F, G, n
  <1>8. ScrubFile(all) = [header |-> "none", findings |-> G]
    BY <1>6, <1>7
  <1>9. QED
    BY <1>8 DEF G, n

\* The cells of an image that the scrubber's report begins with.
LEMMA ImageTable ==
    ASSUME NEW v \in Values
    PROVE  /\ Len(Image(v)) \in Nat /\ Len(Image(v)) >= HeaderCells + Len(v.sections)
           /\ Image(v)[1] = HeaderOf(v)
           /\ \A j \in 1 .. Len(v.sections) : Image(v)[HeaderCells + j] = EntryOf(v, j)
  <1> DEFINE n == Len(v.sections)
             b == Len(Body(v))
             L == Len(Image(v))
  <1>1. b \in Nat /\ b >= HeaderCells + n /\ n \in Nat
    BY ImageIs, ValueTypes
  <1>2. L = b + TrailerCells
    BY ImageCells
  <1>3. Body(v)[1] = HeaderOf(v)
    BY ImageIs
  <1>4. \A j \in 1 .. n : Body(v)[HeaderCells + j] = EntryOf(v, j)
    BY ImageIs
  <1>5. \A p \in 1 .. b : Image(v)[p] = Body(v)[p]
    BY ImageCells
  <1> HIDE DEF n, b, L
  <1>6. 1 \in 1 .. b /\ \A j \in 1 .. n : HeaderCells + j \in 1 .. b
    BY <1>1 DEF HeaderCells
  <1>7. Image(v)[1] = HeaderOf(v)
    BY <1>3, <1>5, <1>6
  <1>8. \A j \in 1 .. n : Image(v)[HeaderCells + j] = EntryOf(v, j)
    BY <1>4, <1>5, <1>6
  <1>9. L \in Nat /\ L >= HeaderCells + n
    BY <1>1, <1>2 DEF TrailerCells, HeaderCells
  <1>10. QED
    BY <1>7, <1>8, <1>9 DEF n, L

\* Of any cells the three verdicts agree: the findings are finitely many and the
\* header is well or ill for all three.
LEMMA VerdictsAgree ==
    ASSUME NEW cells, NEW S, cells \in Seq(S), Len(cells) > 0 => cells[1].count \in Nat
    PROVE  LET report == ScrubFile(cells)
           IN /\ IsClean(report) <=> ReportToResult(report).ok
              /\ IsClean(report) <=> report.header = "none" /\ BadCount(report) = 0
  <1> DEFINE h == ReadHeader(cells)
             report == ScrubFile(cells)
             findings == report.findings
             B == {j \in DOMAIN findings : Bad(findings[j])}
             first == IF B # {} THEN Min(B) ELSE 0
  <1>1. ASSUME NEW e PROVE ~Error(e).ok /\ Error(e).error = e
    BY DEF Error
  <1>2. CASE ~h.ok
    <2>1. h.error # "none"
      <3>1. \E e \in {"Truncated", "MagicMismatch", "UnknownFormat", "Malformed"} : h = Error(e)
        BY <1>2 DEF ReadHeader
      <3>2. QED
        BY <1>1, <3>1
    <2>2. report = [header |-> h.error, findings |-> <<>>]
      BY <1>2 DEF ScrubFile
    <2> HIDE DEF h, report
    <2>3. report.header # "none"
      BY <2>1, <2>2
    <2>4. ~IsClean(report)
      BY <2>3 DEF IsClean
    <2>5. ~ReportToResult(report).ok
      BY <1>1, <2>3 DEF ReportToResult
    <2>6. QED
      BY <2>3, <2>4, <2>5 DEF report
  <1>3. CASE h.ok
    <2>1. \E n \in Nat : DOMAIN h.sections = 1 .. n
      <3>1. Len(cells) \in Nat /\ ~(Len(cells) < HeaderCells)
        BY <1>1, <1>3 DEF ReadHeader
      <3>2. h.sections = [j \in 1 .. cells[1].count |-> AsEntry(cells[HeaderCells + j])]
        BY <1>1, <1>3 DEF ReadHeader
      <3>3. cells[1].count \in Nat
        BY <3>1 DEF HeaderCells
      <3> HIDE DEF h
      <3>4. DOMAIN h.sections = 1 .. cells[1].count
        BY <3>2
      <3>5. QED
        BY <3>3, <3>4
    <2>2. PICK n \in Nat : DOMAIN h.sections = 1 .. n
      BY <2>1
    <2>3. report = [header |-> "none",
                    findings |-> [j \in DOMAIN h.sections |->
                        [type |-> h.sections[j].type, outcome |-> Verify(cells, h.sections[j])]]]
      BY <1>3 DEF ScrubFile
    <2> HIDE DEF h, report
    <2>4. report.header = "none" /\ DOMAIN findings = 1 .. n /\ Len(findings) = n
      BY <2>2, <2>3
    <2> HIDE DEF findings
    <2>5. B \subseteq 1 .. n /\ B \subseteq Nat \ {0}
      BY <2>4
    <2>6. IsFiniteSet(B)
      <3>1. n \in Int /\ 1 \in Int
        OBVIOUS
      <3>2. IsFiniteSet(1 .. n)
        BY <3>1, FS_Interval
      <3> HIDE DEF B
      <3>3. QED
        BY <2>5, <3>2, FS_Subset
    <2>7. IsClean(report) <=> B = {}
      BY <2>4 DEF IsClean, findings
    <2>8. BadCount(report) = Cardinality(B)
      BY DEF BadCount, findings
    <2>9. SelectInSeq(findings, Bad) = first
      <3>1. B = {j \in 1 .. Len(findings) : Bad(findings[j])}
        BY <2>4
      <3>2. QED
        BY <3>1 DEF SelectInSeq
    <2> HIDE DEF B
    <2>10. Cardinality(B) = 0 <=> B = {}
      BY <2>6, FS_EmptySet
    <2>11. first = 0 <=> B = {}
      BY <2>5, FirstPlace
    <2> HIDE DEF first
    <2>12. ReportToResult(report).ok <=> first = 0
      <3>1. ReportToResult(report) =
              IF first = 0 THEN [ok |-> TRUE]
              ELSE IF findings[first].outcome = "ChecksumMismatch"
                     THEN Error(<<"SectionChecksumFailed", findings[first].type>>)
              ELSE Error("Malformed")
        BY <2>4, <2>9 DEF ReportToResult, findings
      <3>2. CASE first = 0
        BY <3>1, <3>2
      <3>3. CASE first # 0
        BY <1>1, <3>1, <3>3
      <3>4. QED
        BY <3>2, <3>3
    <2>13. QED
      BY <2>4, <2>7, <2>8, <2>10, <2>11, <2>12 DEF report
  <1>4. h.ok \in BOOLEAN
    BY DEF ReadHeader, Error
  <1>5. QED
    BY <1>2, <1>3, <1>4

\* The findings about an image.
LEMMA ImageReport ==
    ASSUME NEW v \in Values
    PROVE  ScrubFile(Image(v)) =
              [header |-> "none",
               findings |-> [j \in 1 .. Len(v.sections) |->
                   [type |-> v.sections[j].type, outcome |-> Verdict(v.sections[j])]]]
  <1> DEFINE n == Len(v.sections)
             all == Image(v)
             f == [j \in 1 .. n |-> [type |-> v.sections[j].type, outcome |-> Verify(all, EntryOf(v, j))]]
             g == [j \in 1 .. n |-> [type |-> v.sections[j].type, outcome |-> Verdict(v.sections[j])]]
  <1>1. ScrubFile(all) = [header |-> "none", findings |-> f]
    <2> HIDE DEF all
    <2>1. /\ Len(all) \in Nat /\ Len(all) >= HeaderCells + n
          /\ all[1] = HeaderOf(v)
          /\ \A j \in 1 .. n : all[HeaderCells + j] = EntryOf(v, j)
      BY ImageTable DEF all
    <2>2. QED
      BY <2>1, ScrubIs
  <1>2. \A j \in 1 .. n : Verify(all, EntryOf(v, j)) = Verdict(v.sections[j])
    BY ImageSections
  <1>3. f = g
    BY <1>2
  <1> HIDE DEF f, g, all
  <1>4. ScrubFile(all) = [header |-> "none", findings |-> g]
    BY <1>1, <1>3
  <1>5. QED
    BY <1>4 DEF g, all

\* What the scrubber calls bad in an image that a reader accepts is a section the
\* reader has not read.
LEMMA AcceptedSections ==
    ASSUME NEW v \in Values, NEW format \in Formats, Outcome(v, format).ok
    PROVE  LET report == ScrubFile(Image(v))
               f == report.findings
           IN /\ report.header = "none"
              /\ \A j \in DOMAIN f : Bad(f[j]) =>
                    \/ f[j].type \notin ToSet(Required(format))
                    \/ \E i \in DOMAIN f : i > j /\ f[i].type = f[j].type
  <1> DEFINE n == Len(v.sections)
             report == ScrubFile(Image(v))
             f == [j \in 1 .. n |-> [type |-> v.sections[j].type, outcome |-> Verdict(v.sections[j])]]
             req == Required(v.format)
  <1>1. report = [header |-> "none", findings |-> f]
    BY ImageReport
  <1>2. v.format = format /\ ToSet(req) \subseteq Types(v) /\ SectionsOutcome(v).ok
    BY OutcomeOk
  <1>3. \A r \in DOMAIN req : v.sections[LastOf(v, req[r])].entry = "right"
    BY <1>2, SectionsAreRead
  <1>4. DOMAIN f = 1 .. n /\ n \in Nat
    BY ValueTypes
  <1> HIDE DEF report, req
  <1>5. ASSUME NEW j \in 1 .. n, Bad(f[j]), f[j].type \in ToSet(req)
        PROVE  \E i \in 1 .. n : i > j /\ f[i].type = f[j].type
    <2>1. f[j].type = v.sections[j].type /\ f[j].outcome = Verdict(v.sections[j])
      OBVIOUS
    <2>2. v.sections[j].entry # "right"
      BY <1>5, <2>1 DEF Bad, Verdict
    <2>3. PICK r \in DOMAIN req : v.sections[j].type = req[r]
      BY <1>5, <2>1 DEF ToSet
    <2> DEFINE i == LastOf(v, req[r])
    <2>4. v.sections[i].entry = "right"
      BY <1>3
    <2>5. req[r] \in Types(v)
      BY <1>2 DEF ToSet
    <2>6. i \in 1 .. n /\ v.sections[i].type = req[r]
      BY <2>5, LocateIs
    <2>7. j <= i
      BY <2>3, LastIsLast
    <2> HIDE DEF i
    <2>8. i > j
      <3>1. i # j
        BY <2>2, <2>4
      <3>2. QED
        BY <1>4, <2>6, <2>7, <3>1
    <2>9. f[i].type = f[j].type
      BY <2>1, <2>3, <2>6
    <2>10. QED
      BY <2>6, <2>8, <2>9
  <1> HIDE DEF f
  <1>6. report.header = "none" /\ report.findings = f
    BY <1>1
  <1>7. QED
    BY <1>2, <1>4, <1>5, <1>6 DEF report, req

\* is_clean, bad_count and report_to_result never disagree, and an alarm about a
\* file that a reader accepts is never about a section it read.
THEOREM ReadSectionsAlwaysOk == Spec => []ReadSectionsOk
  <1>1. IInv => ReadSectionsOk
    <2> SUFFICES ASSUME IInv PROVE ReadSectionsOk
      OBVIOUS
    <2>1. file \in Seq(ToSet(file)) /\ (Len(file) > 0 => file[1].count \in Nat)
      <3>1. file \in Seq(ToSet(file)) /\ DOMAIN file = 1 .. Len(file) /\ Len(file) \in Nat
        BY OfItsElements DEF IInv, CellsInv
      <3>2. ASSUME Len(file) > 0 PROVE file[1].count \in Nat
        <4>1. 1 \in DOMAIN file /\ file # <<>>
          BY <3>1, <3>2
        <4>2. file[1].kind = "header"
          BY <4>1 DEF IInv, TypeOK
        <4>3. IsCell(file[1])
          BY <4>1 DEF IInv, CellsInv
        <4>4. QED
          BY <4>2, <4>3 DEF IsCell
      <3>3. QED
        BY <3>1, <3>2
    <2> DEFINE report == ScrubFile(file)
    <2>2. IsClean(report) <=> ReportToResult(report).ok
      BY <2>1, VerdictsAgree
    <2>3. IsClean(report) <=> report.header = "none" /\ BadCount(report) = 0
      BY <2>1, VerdictsAgree
    <2>4. ASSUME NEW format \in Formats, Read(file, format).ok
          PROVE  /\ report.header = "none"
                 /\ \A j \in DOMAIN report.findings : Bad(report.findings[j]) =>
                       \/ report.findings[j].type \notin ToSet(Required(format))
                       \/ \E i \in DOMAIN report.findings :
                             i > j /\ report.findings[i].type = report.findings[j].type
      <3>1. PICK v \in begun : file = Image(v) /\ Read(file, format) = Outcome(v, format)
        BY <2>4, AcceptedWasWritten DEF IInv, TypeOK, CellsInv
      <3>2. v \in Values /\ Outcome(v, format).ok
        BY <2>4, <3>1 DEF IInv, TypeOK
      <3> HIDE DEF report
      <3>3. report = ScrubFile(Image(v))
        BY <3>1 DEF report
      <3>4. QED
        BY <3>2, <3>3, AcceptedSections
    <2> HIDE DEF report
    <2>5. QED
      BY <2>2, <2>3, <2>4 DEF ReadSectionsOk, report
  <1>2. QED
    BY <1>1, AlwaysIInv, PTL

\* Rot in one cell of a payload: the cell is in that section and no other, and
\* the header, the table and the trailer are as they were.
LEMMA RotIsLocal ==
    ASSUME NEW v \in Values, NEW j \in 1 .. Len(v.sections), NEW k \in 1 .. v.sections[j].cells
    PROVE  LET all == ReplaceAt(Image(v), Offsets(v)[j] + k, [kind |-> "flipped"])
               n == Len(v.sections)
           IN /\ all \in Seq(ToSet(all)) /\ Len(all) = Len(Image(v)) /\ Len(all) \in Nat
              /\ Len(all) >= HeaderCells + n /\ Len(all) > Len(Body(v))
              /\ all[1] = HeaderOf(v)
              /\ \A i \in 1 .. n : all[HeaderCells + i] = EntryOf(v, i)
              /\ Last(all) = Trailer(Body(v))
              /\ all[Offsets(v)[j] + k] = [kind |-> "flipped"]
              /\ \A i \in 1 .. n : i # j =>
                    \A m \in 1 .. v.sections[i].cells :
                        all[Offsets(v)[i] + m] = Payload(v, i)[m]
  <1> DEFINE o(i) == Offsets(v)[i]
             c(i) == v.sections[i].cells
             n == Len(v.sections)
             b == Len(Body(v))
             image == Image(v)
             L == Len(image)
             p == o(j) + k
             rot == [kind |-> "flipped"]
             all == ReplaceAt(image, p, rot)
  <1>1. /\ n \in Nat /\ b \in Nat /\ L = b + 1
        /\ image \in Seq(BodyCells(v) \cup {Trailer(Body(v))})
    BY ValueTypes, ImageIs, ImageCells DEF TrailerCells
  <1>2. \A i \in 1 .. n : o(i) \in Nat /\ c(i) \in Nat /\ HeaderCells + n <= o(i) /\ o(i) + c(i) <= b
    <2>1. \A i \in 1 .. n : o(i) \in Nat /\ HeaderCells + n <= o(i)
      BY OffsetsGrow
    <2>2. \A i \in 1 .. n : c(i) \in Nat
      BY ValueTypes
    <2>3. \A i \in 1 .. n : o(i) + c(i) <= b
      BY ImageIs
    <2>4. QED
      BY <2>1, <2>2, <2>3
  <1>3. \A h, i \in 1 .. n : h < i => o(h) + c(h) <= o(i)
    BY OffsetsGrow
  <1>4. \A i \in 1 .. n : \A m \in 1 .. c(i) : image[o(i) + m] = Payload(v, i)[m]
    <2> SUFFICES ASSUME NEW i \in 1 .. n, NEW m \in 1 .. c(i)
                 PROVE  image[o(i) + m] = Payload(v, i)[m]
      OBVIOUS
    <2>1. Body(v)[o(i) + m] = Payload(v, i)[m]
      BY ImageIs
    <2>2. o(i) + m \in 1 .. b
      <3> HIDE DEF o, c, b
      <3> QED
        BY <1>1, <1>2, SMTT(60)
    <2>3. image[o(i) + m] = Body(v)[o(i) + m]
      BY <2>2, ImageCells
    <2>4. QED
      BY <2>1, <2>3
  <1>5. image[1] = HeaderOf(v) /\ \A i \in 1 .. n : image[HeaderCells + i] = EntryOf(v, i)
    BY ImageTable
  <1>6. image[L] = Trailer(Body(v))
    BY ImageCells DEF Last
  <1>7. j \in 1 .. n /\ k \in 1 .. c(j)
    OBVIOUS
  <1> HIDE DEF o, c, n, b, image, L, rot
  <1>8. p \in 1 .. L /\ p # L /\ p > HeaderCells + n /\ p \in Nat
    BY <1>1, <1>2, <1>7, SMTT(60) DEF HeaderCells
  <1> HIDE DEF p
  <1>9. all \in Seq(ToSet(all)) /\ Len(all) = L
    BY <1>1, <1>8, Replaced DEF L
  <1>10. \A i \in 1 .. L : all[i] = IF i = p THEN rot ELSE image[i]
    BY <1>1, <1>8, Replaced DEF L
  <1> HIDE DEF all
  <1>11. L \in Nat /\ L >= HeaderCells + n /\ L > b
    BY <1>1, <1>8 DEF HeaderCells
  <1>12. all[1] = HeaderOf(v)
    <2>1. 1 \in 1 .. L /\ 1 # p
      BY <1>1, <1>8, <1>11 DEF HeaderCells
    <2>2. QED
      BY <1>5, <1>10, <2>1
  <1>13. ASSUME NEW i \in 1 .. n PROVE all[HeaderCells + i] = EntryOf(v, i)
    <2>1. HeaderCells + i \in 1 .. L /\ HeaderCells + i # p
      BY <1>1, <1>8, <1>11 DEF HeaderCells
    <2>2. QED
      BY <1>5, <1>10, <2>1
  <1>14. all[L] = Trailer(Body(v))
    <2>1. L \in 1 .. L
      BY <1>1
    <2>2. QED
      BY <1>6, <1>8, <1>10, <2>1
  <1>15. all[p] = rot
    BY <1>8, <1>10
  <1>16. ASSUME NEW i \in 1 .. n, i # j, NEW m \in 1 .. c(i)
         PROVE  all[o(i) + m] = Payload(v, i)[m]
    <2>1. o(i) + m \in 1 .. L
      <3> DEFINE x == o(i)
                 y == c(i)
      <3>1. x \in Nat /\ y \in Nat /\ x + y <= b /\ m \in 1 .. y
        BY <1>2
      <3> HIDE DEF x, y
      <3>2. x + m \in 1 .. L
        BY <1>1, <3>1
      <3>3. QED
        BY <3>2 DEF x
    <2>2. o(i) + m # p
      <3>1. CASE i < j
        <4>1. o(i) + c(i) <= o(j)
          BY <1>3, <1>7, <3>1
        <4>2. QED
          BY <1>2, <1>7, <4>1 DEF p
      <3>2. CASE j < i
        <4>1. o(j) + c(j) <= o(i)
          BY <1>3, <1>7, <3>2
        <4>2. QED
          BY <1>2, <1>7, <4>1 DEF p
      <3>3. QED
        BY <1>1, <1>7, <1>16, <3>1, <3>2
    <2>3. QED
      BY <1>4, <1>10, <2>1, <2>2
  <1>17. QED
    BY <1>9, <1>11, <1>12, <1>13, <1>14, <1>15, <1>16 DEF o, c, n, b, image, L, p, rot, all, Last

\* Bit rot in a payload is reported for its section, and refused by the readers.
LEMMA RotIsLocated ==
    ASSUME NEW v \in Values, NEW j \in 1 .. Len(v.sections), NEW k \in 1 .. v.sections[j].cells,
           v.sections[j].entry = "right"
    PROVE  LET all == ReplaceAt(Image(v), Offsets(v)[j] + k, [kind |-> "flipped"])
           IN /\ ScrubFile(all) =
                    [ScrubFile(Image(v)) EXCEPT !.findings[j].outcome = "ChecksumMismatch"]
              /\ (\A i \in 1 .. j - 1 : v.sections[i].entry = "right") =>
                    ReportToResult(ScrubFile(all)) =
                       Error(<<"SectionChecksumFailed", v.sections[j].type>>)
              /\ Read(all, v.format) = Error("FileChecksumFailed")
  <1> DEFINE n == Len(v.sections)
             o == Offsets(v)[j]
             c == v.sections[j].cells
             b == Len(Body(v))
             all == ReplaceAt(Image(v), o + k, [kind |-> "flipped"])
             S == ToSet(all)
  <1>1. /\ all \in Seq(S) /\ Len(all) = Len(Image(v)) /\ Len(all) \in Nat
        /\ Len(all) >= HeaderCells + n /\ Len(all) > b
        /\ Last(all) = Trailer(Body(v))
        /\ all[o + k] = [kind |-> "flipped"]
    BY RotIsLocal
  <1>2. all[1] = HeaderOf(v) /\ \A i \in 1 .. n : all[HeaderCells + i] = EntryOf(v, i)
    BY RotIsLocal
  <1>3. \A i \in 1 .. n : i # j =>
           \A m \in 1 .. v.sections[i].cells : all[Offsets(v)[i] + m] = Payload(v, i)[m]
    BY RotIsLocal
  <1>4. /\ n \in Nat /\ b \in Nat /\ o \in Nat /\ c \in Nat /\ k \in 1 .. c
        /\ \A i \in 1 .. n : Offsets(v)[i] \in Nat /\ v.sections[i].cells \in Nat
                             /\ Offsets(v)[i] + v.sections[i].cells <= b
    <2>1. n \in Nat /\ c \in Nat /\ \A i \in 1 .. n : v.sections[i].cells \in Nat
      BY ValueTypes
    <2>2. \A i \in 1 .. n : Offsets(v)[i] \in Nat
      BY OffsetsGrow
    <2>3. b \in Nat /\ \A i \in 1 .. n : Offsets(v)[i] + v.sections[i].cells <= b
      BY ImageIs
    <2>4. QED
      BY <2>1, <2>2, <2>3
  <1>5. Len(all) = b + TrailerCells
    <2>1. Len(Image(v)) = b + TrailerCells
      BY ImageCells
    <2> HIDE DEF all, b
    <2>2. QED
      BY <1>1, <2>1
  <1> HIDE DEF all, S, b
  <1>6. ASSUME NEW i \in 1 .. n, i # j
        PROVE  Verify(all, EntryOf(v, i)) = Verdict(v.sections[i])
    BY <1>3, <1>5, <1>6, SectionsAre DEF b
  <1>7. Verify(all, EntryOf(v, j)) = "ChecksumMismatch"
    <2> DEFINE e == EntryOf(v, j)
               t == SubSeq(all, o + 1, o + c)
    <2>1. e.offset = o /\ e.cells = c /\ e.checksum = Crc(Payload(v, j))
      BY EntryIs
    <2>2. o + c <= b
      BY <1>4
    <2>3. t[k] = all[o + k]
      <3> HIDE DEF o, c, n
      <3>1. \A i \in o + 1 .. o + c : all[i] \in S
        <4> SUFFICES ASSUME NEW i \in o + 1 .. o + c PROVE all[i] \in S
          OBVIOUS
        <4>1. i \in 1 .. Len(all)
          BY <1>1, <1>4, <2>2
        <4>2. QED
          BY <1>1, <4>1, ElementOfSeq
      <3>2. o + 1 \in Int /\ o + c \in Int
        BY <1>4
      <3>3. \A i \in 1 .. (o + c) - (o + 1) + 1 : t[i] = all[(o + 1) + i - 1]
        BY <3>1, <3>2, SubSeqProperties
      <3> HIDE DEF t
      <3>4. k \in 1 .. (o + c) - (o + 1) + 1 /\ (o + 1) + k - 1 = o + k
        BY <1>4
      <3>5. QED
        BY <3>3, <3>4
    <2>4. Payload(v, j)[k].kind = "data"
      <3>1. Payload(v, j)[k] = [kind |-> "data", of |-> v.id, part |-> j, at |-> k,
                                declares |-> v.declares]
        BY PayloadTypes
      <3>2. QED
        BY <3>1
    <2>5. t # Payload(v, j)
      <3> HIDE DEF t
      <3>1. t[k].kind = "flipped"
        BY <1>1, <2>3
      <3>2. QED
        BY <2>4, <3>1
    <2> HIDE DEF e
    <2>6. Cells(all, e) = t
      BY <2>1 DEF Cells
    <2> HIDE DEF t
    <2>7. Crc(Cells(all, e)) # e.checksum
      BY <2>1, <2>5, <2>6 DEF Crc
    <2>8. ~(e.offset + e.cells > Len(all))
      <3> HIDE DEF o, c
      <3>1. QED
        BY <1>1, <1>4, <2>1, <2>2
    <2>9. Verify(all, e) = "ChecksumMismatch"
      BY <2>7, <2>8 DEF Verify
    <2>10. QED
      BY <2>9 DEF e
  <1> DEFINE f == [i \in 1 .. n |-> [type |-> v.sections[i].type, outcome |->
                       IF i = j THEN "ChecksumMismatch" ELSE Verdict(v.sections[i])]]
             report == ScrubFile(all)
  <1>8. report = [header |-> "none", findings |-> f]
    <2> DEFINE g == [i \in 1 .. n |-> [type |-> v.sections[i].type,
                                       outcome |-> Verify(all, EntryOf(v, i))]]
    <2>1. report = [header |-> "none", findings |-> g]
      BY <1>1, <1>2, ScrubIs
    <2>2. \A i \in 1 .. n : Verify(all, EntryOf(v, i)) =
                               IF i = j THEN "ChecksumMismatch" ELSE Verdict(v.sections[i])
      BY <1>6, <1>7
    <2>3. f = g
      BY <2>2
    <2> HIDE DEF f, g, report
    <2>4. QED
      BY <2>1, <2>3
  <1>9. report = [ScrubFile(Image(v)) EXCEPT !.findings[j].outcome = "ChecksumMismatch"]
    <2> DEFINE g == [i \in 1 .. n |-> [type |-> v.sections[i].type,
                                       outcome |-> Verdict(v.sections[i])]]
               changed == [g EXCEPT ![j].outcome = "ChecksumMismatch"]
    <2>1. ScrubFile(Image(v)) = [header |-> "none", findings |-> g]
      BY ImageReport
    <2>2. ASSUME NEW i \in 1 .. n PROVE f[i] = changed[i]
      <3>1. CASE i = j
        BY <3>1
      <3>2. CASE i # j
        BY <3>2
      <3>3. QED
        BY <3>1, <3>2
    <2>3. f = changed
      <3>1. /\ f = [i \in 1 .. n |-> f[i]]
            /\ changed = [i \in 1 .. n |-> changed[i]]
        OBVIOUS
      <3> HIDE DEF f, changed
      <3>2. QED
        BY <2>2, <3>1
    <2> HIDE DEF f, g, report
    <2>4. [ScrubFile(Image(v)) EXCEPT !.findings[j].outcome = "ChecksumMismatch"] =
             [header |-> "none", findings |-> [g EXCEPT ![j].outcome = "ChecksumMismatch"]]
      BY <2>1
    <2>5. QED
      BY <1>8, <2>3, <2>4
  <1>10. ASSUME \A i \in 1 .. j - 1 : v.sections[i].entry = "right"
         PROVE  ReportToResult(report) = Error(<<"SectionChecksumFailed", v.sections[j].type>>)
    <2>1. /\ Len(f) = n /\ j \in 1 .. n
          /\ f[j].outcome = "ChecksumMismatch" /\ f[j].type = v.sections[j].type
          /\ Bad(f[j])
      BY <1>4 DEF Bad
    <2>2. ASSUME NEW i \in 1 .. n, Bad(f[i]) PROVE j <= i
      <3>1. SUFFICES ASSUME i < j PROVE FALSE
        BY <1>4
      <3>2. v.sections[i].entry = "right"
        BY <1>10, <3>1
      <3>3. f[i].outcome = "Ok"
        BY <3>1, <3>2 DEF Verdict
      <3>4. QED
        BY <2>2, <3>3 DEF Bad
    <2> HIDE DEF f, report
    <2>3. report.header = "none" /\ report.findings = f
      BY <1>8
    <2> DEFINE I == {i \in 1 .. Len(report.findings) : Bad(report.findings[i])}
    <2>4. I \subseteq Nat /\ I # {} /\ j \in I /\ \A i \in I : j <= i
      BY <2>1, <2>2, <2>3
    <2>5. SelectInSeq(report.findings, Bad) = Min(I)
      BY <2>4 DEF SelectInSeq
    <2> HIDE DEF I
    <2>6. Min(I) = j
      <3> DEFINE m == Min(I)
      <3>1. m \in I /\ \A i \in I : m <= i
        BY <2>4, MinIndex
      <3> HIDE DEF m
      <3>2. m <= j /\ j <= m /\ m \in Nat /\ j \in Nat
        BY <2>4, <3>1
      <3>3. QED
        BY <3>2 DEF m
    <2>7. j # 0
      BY <1>4, <2>1
    <2>8. QED
      BY <2>1, <2>3, <2>5, <2>6, <2>7 DEF ReportToResult
  <1>11. Read(all, v.format) = Error("FileChecksumFailed")
    <2>1. all # Image(v)
      <3> DEFINE p == o + k
      <3>1. all[p].kind = "flipped"
        BY <1>1
      <3>2. Image(v)[p].kind = "data"
        <4>1. p \in 1 .. b
          <5>1. o + c <= b
            BY <1>4
          <5> HIDE DEF o, c
          <5>2. QED
            BY <1>4, <5>1
        <4>2. Image(v)[p] = Body(v)[p]
          BY <4>1, ImageCells DEF b
        <4>3. Body(v)[p] = Payload(v, j)[k]
          BY ImageIs
        <4>4. Payload(v, j)[k] = [kind |-> "data", of |-> v.id, part |-> j, at |-> k,
                                  declares |-> v.declares]
          BY PayloadTypes
        <4> HIDE DEF p
        <4>5. QED
          BY <4>2, <4>3, <4>4
      <3> HIDE DEF p
      <3>3. QED
        BY <3>1, <3>2
    <2>2. Len(all) > 0
      BY <1>1, <1>4
    <2>3. ~TrailerFits(all)
      BY <1>1, <2>1, <2>2, AcceptedIsImage
    <2>4. ~(Len(all) < HeaderCells + TrailerCells)
      <3>1. 1 <= n
        BY <1>4
      <3> HIDE DEF n
      <3>2. QED
        BY <1>1, <1>4, <3>1 DEF HeaderCells, TrailerCells
    <2>5. QED
      BY <2>3, <2>4 DEF Read
  <1>12. QED
    BY <1>9, <1>10, <1>11 DEF all, n

\* Rot in the payload of a section whose entry is right changes the finding of
\* that section and of no other, for sections of any number and length and
\* whatever their entries say; report_to_result names it unless a section before
\* it is bad by its entry; and the readers refuse the file (verify_section,
\* report_to_result, the trailing CRC).
THEOREM RotAlwaysLocated == Spec => []ScrubLocates
  <1>1. IInv => ScrubLocates
    <2> SUFFICES ASSUME IInv, NEW v \in begun, NEW j \in DOMAIN v.sections,
                        NEW k \in 1 .. v.sections[j].cells,
                        v.sections[j].entry = "right",
                        file = ReplaceAt(Image(v), Offsets(v)[j] + k, [kind |-> "flipped"])
                 PROVE  /\ ScrubFile(file) = [ScrubFile(Image(v)) EXCEPT
                                 !.findings[j].outcome = "ChecksumMismatch"]
                        /\ (\A i \in 1 .. j - 1 : v.sections[i].entry = "right") =>
                              ReportToResult(ScrubFile(file)) =
                                 Error(<<"SectionChecksumFailed", v.sections[j].type>>)
                        /\ Read(file, v.format) = Error("FileChecksumFailed")
      BY DEF ScrubLocates
    <2>1. v \in Values
      BY DEF IInv, TypeOK
    <2>2. j \in 1 .. Len(v.sections)
      BY <2>1, ValueTypes
    <2>3. ScrubFile(file) = [ScrubFile(Image(v)) EXCEPT !.findings[j].outcome = "ChecksumMismatch"]
      BY <2>1, <2>2, RotIsLocated
    <2>4. (\A i \in 1 .. j - 1 : v.sections[i].entry = "right") =>
             ReportToResult(ScrubFile(file)) =
                Error(<<"SectionChecksumFailed", v.sections[j].type>>)
      BY <2>1, <2>2, RotIsLocated
    <2>5. Read(file, v.format) = Error("FileChecksumFailed")
      BY <2>1, <2>2, RotIsLocated
    <2>6. QED
      BY <2>3, <2>4, <2>5
  <1>2. QED
    BY <1>1, AlwaysIInv, PTL
===============================================================================
