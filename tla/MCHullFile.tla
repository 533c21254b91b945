------------------------------ MODULE MCHullFile ------------------------------
(***************************************************************************)
(* Values for HullFile: two sagas and one of version 2, of one layout; one *)
(* without tags, one the encoders refuse and one whose tags are said to be *)
(* outside the file, where the scrubber has nothing to read; KV caches of  *)
(* other writers: one with an unknown section of wrong checksum before the *)
(* blob, one with two blobs, of which the first would fit the shape and is *)
(* said to be outside, and one whose blob has a wrong checksum.            *)
(***************************************************************************)
EXTENDS HullFile

Entry(t, n, says) == [type |-> t, cells |-> n, entry |-> says]
Section(t, n) == Entry(t, n, "right")

Saga(id, version, centroids, sections) ==
    [id |-> id, format |-> "saga", version |-> version, sections |-> sections,
     encodes |-> id # "ragged", declares |-> centroids]

SagaSections(n) == <<Section("meta", 1), Section("centroids", n), Section("tags", 1)>>

KvCache(id, declares, rest) ==
    [id |-> id, format |-> "kv", version |-> 1,
     sections |-> <<Section("identity", 1), Section("shape", 1)>> \o rest,
     encodes |-> TRUE, declares |-> declares]

AllValues ==
    {Saga("a", 1, 1, SagaSections(1)),
     Saga("b", 1, 1, SagaSections(1)),
     Saga("v2", 2, 1, SagaSections(1)),
     Saga("tagless", 1, 1, SubSeq(SagaSections(1), 1, 2)),
     Saga("ragged", 1, 1, SagaSections(1)),
     Saga("lost", 1, 1, SubSeq(SagaSections(1), 1, 2) \o <<Entry("tags", 0, "outside")>>),
     KvCache("kv2", 1, <<Entry("offsets", 1, "wrong"), Section("blob", 1)>>),
     KvCache("kvmisfit", 2, <<Entry("blob", 2, "outside"), Section("blob", 1)>>),
     KvCache("kvwrong", 1, <<Entry("blob", 1, "wrong")>>)}
==============================================================================
