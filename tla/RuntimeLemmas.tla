--------------------------- MODULE RuntimeLemmas ----------------------------
(***************************************************************************)
(* What the operators TelemetryRuntime is built from do, for every value   *)
(* of the constants: the sequences, the overflow of the ring, a read shown *)
(* to the policy, a request taken in by the server.                        *)
(***************************************************************************)
EXTENDS TelemetryRuntime, SequenceTheorems, FiniteSetTheorems, BasicLemmas

Distinct(q) == \A i, j \in DOMAIN q : q[i] = q[j] => i = j

-----------------------------------------------------------------------------
(***************************************************************************)
(* The empty queue.                                                        *)
(***************************************************************************)
LEMMA EmptyQueue ==
    /\ Members(<<>>) = {} /\ Distinct(<<>>) /\ Len(<<>>) = 0
    /\ \A S : <<>> \in Seq(S)
    /\ \A S : \A q \in Seq(S) : Len(q) = 0 <=> q = <<>>
  <1>1. DOMAIN <<>> = {}
    OBVIOUS
  <1> QED
    BY <1>1 DEF Members, Distinct

(***************************************************************************)
(* Taking the first element of a queue, as persist_all and the             *)
(* acknowledgements do.                                                    *)
(***************************************************************************)
LEMMA TailOfQueue ==
    ASSUME NEW S, NEW q \in Seq(S), q # <<>>
    PROVE  /\ Tail(q) \in Seq(S) /\ Len(Tail(q)) = Len(q) - 1 /\ Len(q) \in Nat \ {0}
           /\ Head(q) \in S /\ Head(q) = q[1]
           /\ \A k \in DOMAIN Tail(q) : k + 1 \in DOMAIN q /\ Tail(q)[k] = q[k + 1]
           /\ Members(q) = Members(Tail(q)) \cup {Head(q)}
           /\ Distinct(q) => Distinct(Tail(q)) /\ Head(q) \notin Members(Tail(q))
  <1>1. /\ Tail(q) \in Seq(S) /\ Len(Tail(q)) = Len(q) - 1 /\ Len(q) \in Nat \ {0}
        /\ Head(q) \in S /\ Head(q) = q[1]
    OBVIOUS
  <1>2. DOMAIN q = 1..Len(q) /\ DOMAIN Tail(q) = 1..(Len(q) - 1)
    OBVIOUS
  <1>3. \A k \in DOMAIN Tail(q) : k + 1 \in DOMAIN q /\ Tail(q)[k] = q[k + 1]
    BY <1>1, <1>2
  <1>4. \A k \in DOMAIN q : k = 1 \/ (k - 1 \in DOMAIN Tail(q) /\ Tail(q)[k - 1] = q[k])
    BY <1>1, <1>2
  <1>5. 1 \in DOMAIN q
    BY <1>1, <1>2
  <1>6. Members(q) = Members(Tail(q)) \cup {Head(q)}
    BY <1>1, <1>3, <1>4, <1>5 DEF Members
  <1>7. ASSUME Distinct(q) PROVE Distinct(Tail(q)) /\ Head(q) \notin Members(Tail(q))
    <2>1. Distinct(Tail(q))
      <3> SUFFICES ASSUME NEW i \in DOMAIN Tail(q), NEW j \in DOMAIN Tail(q),
                          Tail(q)[i] = Tail(q)[j]
                   PROVE  i = j
        BY DEF Distinct
      <3>1. i + 1 = j + 1
        BY <1>3, <1>7 DEF Distinct
      <3> QED
        BY <1>1, <1>2, <3>1
    <2>2. \A k \in DOMAIN Tail(q) : Tail(q)[k] # q[1]
      <3> SUFFICES ASSUME NEW k \in DOMAIN Tail(q), Tail(q)[k] = q[1] PROVE FALSE
        OBVIOUS
      <3>1. k + 1 = 1
        BY <1>3, <1>5, <1>7 DEF Distinct
      <3> QED
        BY <1>1, <1>2, <3>1
    <2> QED
      BY <1>1, <2>1, <2>2 DEF Members
  <1> QED
    BY <1>1, <1>3, <1>6, <1>7

(***************************************************************************)
(* Adding an element at the end of a queue.                                *)
(***************************************************************************)
LEMMA AppendToQueue ==
    ASSUME NEW S, NEW q \in Seq(S), NEW s \in S
    PROVE  /\ Append(q, s) \in Seq(S) /\ Len(Append(q, s)) = Len(q) + 1
           /\ DOMAIN Append(q, s) = 1..(Len(q) + 1)
           /\ \A k \in DOMAIN q : Append(q, s)[k] = q[k]
           /\ Append(q, s)[Len(q) + 1] = s
           /\ Members(Append(q, s)) = Members(q) \cup {s}
           /\ Distinct(q) /\ s \notin Members(q) => Distinct(Append(q, s))
  <1>1. /\ Append(q, s) \in Seq(S) /\ Len(Append(q, s)) = Len(q) + 1
        /\ DOMAIN Append(q, s) = 1..(Len(q) + 1) /\ DOMAIN q = 1..Len(q) /\ Len(q) \in Nat
        /\ \A k \in DOMAIN q : Append(q, s)[k] = q[k]
        /\ Append(q, s)[Len(q) + 1] = s
    OBVIOUS
  <1>2. DOMAIN Append(q, s) = DOMAIN q \cup {Len(q) + 1} /\ Len(q) + 1 \notin DOMAIN q
    BY <1>1
  <1> DEFINE r == Append(q, s)
  <1>3. Members(r) = Members(q) \cup {s}
    <2> HIDE DEF r
    <2>1. /\ DOMAIN r = DOMAIN q \cup {Len(q) + 1}
          /\ \A k \in DOMAIN q : r[k] = q[k]
          /\ r[Len(q) + 1] = s
      BY <1>1, <1>2 DEF r
    <2> QED
      BY <2>1 DEF Members
  <1>4. Distinct(q) /\ s \notin Members(q) => Distinct(r)
    <2>1. /\ DOMAIN r = DOMAIN q \cup {Len(q) + 1}
          /\ \A k \in DOMAIN q : r[k] = q[k]
          /\ r[Len(q) + 1] = s
      BY <1>1, <1>2
    <2> HIDE DEF r
    <2> QED
      BY <2>1 DEF Members, Distinct
  <1> QED
    BY <1>1, <1>3, <1>4

(***************************************************************************)
(* DELETE of a row by its place: the row is gone, the others stay.         *)
(***************************************************************************)
LEMMA RemoveAtPlace ==
    ASSUME NEW S, NEW q \in Seq(S), NEW v \in DOMAIN q, Distinct(q)
    PROVE  /\ RemoveAt(q, v) \in Seq(S)
           /\ Distinct(RemoveAt(q, v))
           /\ Members(RemoveAt(q, v)) = Members(q) \ {q[v]}
  <1> DEFINE s1 == SubSeq(q, 1, v - 1)
             s2 == SubSeq(q, v + 1, Len(q))
             r  == RemoveAt(q, v)
  <1>1. Len(q) \in Nat /\ v \in Nat /\ v \in 1..Len(q) /\ DOMAIN q = 1..Len(q)
    OBVIOUS
  <1>2. s1 \in Seq(S) /\ Len(s1) = v - 1 /\ \A k \in 1..(v - 1) : s1[k] = q[k]
    BY <1>1
  <1>3. s2 \in Seq(S) /\ Len(s2) = Len(q) - v /\ \A k \in 1..(Len(q) - v) : s2[k] = q[k + v]
    BY <1>1
  <1>4. r = s1 \o s2
    BY DEF RemoveAt
  <1> HIDE DEF s1, s2, r
  <1>5. /\ r \in Seq(S) /\ Len(r) = Len(s1) + Len(s2)
        /\ \A k \in 1..(Len(s1) + Len(s2)) :
              r[k] = IF k <= Len(s1) THEN s1[k] ELSE s2[k - Len(s1)]
    BY <1>2, <1>3, <1>4, ConcatProperties
  <1>6. /\ r \in Seq(S) /\ DOMAIN r = 1..(Len(q) - 1)
        /\ \A k \in DOMAIN r : r[k] = IF k < v THEN q[k] ELSE q[k + 1]
    <2>1. r \in Seq(S) /\ DOMAIN r = 1..(Len(q) - 1) /\ Len(s1) + Len(s2) = Len(q) - 1
      BY <1>1, <1>2, <1>3, <1>5
    <2>2. ASSUME NEW k \in 1..(Len(q) - 1), k < v PROVE r[k] = q[k]
      BY <1>1, <1>2, <1>5, <2>1, <2>2
    <2>3. ASSUME NEW k \in 1..(Len(q) - 1), ~(k < v) PROVE r[k] = q[k + 1]
      <3>1. r[k] = s2[k - (v - 1)]
        BY <1>1, <1>2, <1>5, <2>1, <2>3
      <3>2. k - (v - 1) \in 1..(Len(q) - v) /\ (k - (v - 1)) + v = k + 1
        BY <1>1, <2>3
      <3> QED
        BY <1>3, <3>1, <3>2
    <2> QED
      BY <2>1, <2>2, <2>3
  <1> DEFINE from(k) == IF k < v THEN k ELSE k + 1
  <1>7. \A k \in DOMAIN r : from(k) \in DOMAIN q \ {v} /\ r[k] = q[from(k)]
    BY <1>1, <1>6
  <1>8. \A i, j \in DOMAIN r : from(i) = from(j) => i = j
    BY <1>1, <1>6
  <1>9. \A i \in DOMAIN q \ {v} : \E k \in DOMAIN r : from(k) = i
    <2> SUFFICES ASSUME NEW i \in DOMAIN q \ {v} PROVE \E k \in DOMAIN r : from(k) = i
      OBVIOUS
    <2>1. CASE i < v
      BY <1>1, <1>6, <2>1
    <2>2. CASE i > v
      <3>1. i - 1 \in DOMAIN r /\ from(i - 1) = i
        BY <1>1, <1>6, <2>2
      <3> QED
        BY <3>1
    <2> QED
      BY <1>1, <2>1, <2>2
  <1> HIDE DEF from
  <1>10. Distinct(r)
    BY <1>7, <1>8 DEF Distinct
  <1>11. Members(r) = Members(q) \ {q[v]}
    BY <1>7, <1>9 DEF Members, Distinct
  <1> QED
    BY <1>6, <1>10, <1>11 DEF r

(***************************************************************************)
(* Rows are told apart by their id, and by their sample.                   *)
(***************************************************************************)
Row == [id : Nat \ {0}, sample : Sample]

RowsDiffer(R) == \A r1, r2 \in R : r1.id = r2.id \/ r1.sample = r2.sample => r1 = r2

(***************************************************************************)
(* acknowledge() takes away the row with the given id and no other.        *)
(***************************************************************************)
LEMMA DeletedRow ==
    ASSUME NEW id, rows \in Seq(Row), Distinct(rows), RowsDiffer(Members(rows))
    PROVE  /\ Deleted(id) \in Seq(Row) /\ Distinct(Deleted(id))
           /\ Members(Deleted(id)) = {r \in Members(rows) : r.id # id}
  <1> DEFINE found == {k \in DOMAIN rows : rows[k].id = id}
  <1>1. CASE found = {}
    <2>1. Deleted(id) = rows
      BY <1>1 DEF Deleted
    <2>2. \A r \in Members(rows) : r.id # id
      BY <1>1 DEF Members
    <2> QED
      BY <2>1, <2>2
  <1>2. CASE found # {}
    <2>1. PICK v : v = CHOOSE k \in found : TRUE
      OBVIOUS
    <2>2. v \in DOMAIN rows /\ rows[v].id = id
      BY <1>2, <2>1
    <2>3. Deleted(id) = RemoveAt(rows, v)
      BY <1>2, <2>1 DEF Deleted
    <2>4. /\ RemoveAt(rows, v) \in Seq(Row) /\ Distinct(RemoveAt(rows, v))
          /\ Members(RemoveAt(rows, v)) = Members(rows) \ {rows[v]}
      BY <2>2, RemoveAtPlace
    <2>5. rows[v] \in Members(rows)
      BY <2>2 DEF Members
    <2> QED
      BY <2>2, <2>3, <2>4, <2>5 DEF RowsDiffer
  <1> QED
    BY <1>1, <1>2

(***************************************************************************)
(* What peek_batch reads are rows of the table.                            *)
(***************************************************************************)
LEMMA PrefixOfQueue ==
    ASSUME NEW S, NEW q \in Seq(S), NEW n \in 0..Len(q)
    PROVE  /\ SubSeq(q, 1, n) \in Seq(S) /\ Len(SubSeq(q, 1, n)) = n
           /\ Members(SubSeq(q, 1, n)) \subseteq Members(q)
  <1>1. /\ SubSeq(q, 1, n) \in Seq(S) /\ Len(SubSeq(q, 1, n)) = n
        /\ DOMAIN SubSeq(q, 1, n) \subseteq DOMAIN q
        /\ \A k \in DOMAIN SubSeq(q, 1, n) : SubSeq(q, 1, n)[k] = q[k]
    OBVIOUS
  <1> QED
    BY <1>1 DEF Members

(***************************************************************************)
(* A queue without repetitions has as many members as places.              *)
(***************************************************************************)
LEMMA MembersCounted ==
    ASSUME NEW S, NEW q \in Seq(S), Distinct(q)
    PROVE  Cardinality(Members(q)) = Len(q)
  <1> DEFINE f == [k \in 1..Len(q) |-> q[k]]
  <1>1. Len(q) \in Nat /\ DOMAIN q = 1..Len(q)
    OBVIOUS
  <1>2. f \in Bijection(1..Len(q), Members(q))
    BY <1>1 DEF Members, Distinct, Bijection, Injection, Surjection, IsInjective
  <1>3. ExistsBijection(1..Len(q), Members(q))
    BY <1>2, Zenon DEF ExistsBijection
  <1> QED
    BY <1>1, <1>3, FS_CountingElements
-----------------------------------------------------------------------------
(***************************************************************************)
(* A sample is what SamplesOf makes of one of the channels.                *)
(***************************************************************************)
LEMMA SampleShape ==
    ASSUME NEW s \in Sample
    PROVE  /\ s.channel \in Channel /\ s.place \in 1..Len(Reads[s.channel])
           /\ s.stamp \in 0..MaxReads
           /\ SamplePriority(s) \in 0..2
  <1>1. PICK ch \in Channel, stamp \in 0..MaxReads : s \in Members(SamplesOf(ch, stamp))
    BY DEF Sample
  <1>2. PICK n \in 1..Len(Reads[ch]) : s = [channel |-> ch, place |-> n, stamp |-> stamp]
    BY <1>1 DEF Members, SamplesOf
  <1>3. s.channel = ch /\ s.place = n /\ s.stamp = stamp
    BY <1>2
  <1>4. Sync[ch].priority \in 0..2
    BY SyncAssumption DEF SyncConfig
  <1> QED
    BY <1>3, <1>4 DEF SamplePriority

(***************************************************************************)
(* What a read returns: samples of its channel and time, all different.    *)
(***************************************************************************)
LEMMA ReadIsSamples ==
    ASSUME NEW ch \in Channel, NEW stamp \in 0..MaxReads
    PROVE  /\ SamplesOf(ch, stamp) \in Seq(Sample) /\ Distinct(SamplesOf(ch, stamp))
           /\ Len(SamplesOf(ch, stamp)) = Len(Reads[ch])
           /\ \A s \in Members(SamplesOf(ch, stamp)) : s.channel = ch /\ s.stamp = stamp
  <1> DEFINE new == SamplesOf(ch, stamp)
             At(n) == [channel |-> ch, place |-> n, stamp |-> stamp]
  <1>1. Len(Reads[ch]) \in Nat
    BY RuntimeAssumption
  <1>2. DOMAIN new = 1..Len(Reads[ch]) /\ \A n \in 1..Len(Reads[ch]) : new[n] = At(n)
    BY DEF SamplesOf
  <1>3. \A n \in 1..Len(Reads[ch]) : new[n] \in Members(new)
    BY <1>2 DEF Members
  <1>4. Members(new) \subseteq Sample
    BY DEF Sample
  <1>5. new \in [1..Len(Reads[ch]) -> Sample]
    <2>1. new = [n \in 1..Len(Reads[ch]) |-> new[n]]
      BY DEF SamplesOf
    <2> HIDE DEF new
    <2> QED
      BY <1>3, <1>4, <2>1
  <1>6. new \in Seq(Sample) /\ Len(new) = Len(Reads[ch])
    <2> HIDE DEF new
    <2> QED
      BY <1>1, <1>5, FunctionIsSequence
  <1>7. \A n : At(n).channel = ch /\ At(n).stamp = stamp /\ At(n).place = n
    OBVIOUS
  <1> HIDE DEF new, At
  <1>8. Distinct(new)
    BY <1>2, <1>7 DEF Distinct
  <1>9. \A s \in Members(new) : s.channel = ch /\ s.stamp = stamp
    BY <1>2, <1>7 DEF Members
  <1> QED
    BY <1>6, <1>8, <1>9 DEF new

-----------------------------------------------------------------------------
(***************************************************************************)
(* A ring that holds samples has one to drop: enqueue's scan for the       *)
(* oldest of the least important finds it.                                 *)
(***************************************************************************)
LEMMA VictimExists ==
    ASSUME NEW q \in Seq(Sample), q # <<>>
    PROVE  \E v \in 1..Len(q) : Ring!IsVictim(q, v)
  <1>1. Len(q) \in Nat \ {0} /\ \A k \in 1..Len(q) : q[k] \in Sample
    OBVIOUS
  <1>2. \A k \in 1..Len(q) : SamplePriority(q[k]) \in Nat
    BY <1>1, SampleShape
  <1> DEFINE P == {SamplePriority(q[k]) : k \in 1..Len(q)}
  <1>3. P \subseteq Nat /\ P # {}
    BY <1>1, <1>2
  <1>4. PICK p \in P : \A x \in P : p <= x
    BY <1>3, LeastElement
  <1> DEFINE L == {k \in 1..Len(q) : SamplePriority(q[k]) = p}
  <1>5. L \subseteq Nat /\ L # {}
    BY <1>1, <1>4
  <1>6. PICK v \in L : \A x \in L : v <= x
    BY <1>5, LeastElement
  <1>7. \A k \in 1..Len(q) : SamplePriority(q[v]) <= SamplePriority(q[k])
    BY <1>4, <1>6
  <1>8. ASSUME NEW k \in 1..(v - 1) PROVE SamplePriority(q[v]) < SamplePriority(q[k])
    <2>1. k \in 1..Len(q) /\ v \in 1..Len(q) /\ ~(v <= k)
      BY <1>1, <1>6
    <2>2. SamplePriority(q[k]) # p
      BY <1>6, <2>1
    <2> QED
      BY <1>2, <1>6, <1>7, <2>1, <2>2
  <1>9. v \in 1..Len(q)
    BY <1>6
  <1> HIDE DEF L, P
  <1> QED
    BY <1>7, <1>8, <1>9 DEF Ring!IsVictim

(***************************************************************************)
(* enqueue() keeps the ring within its capacity, and brings nothing into   *)
(* it but the sample offered.                                              *)
(***************************************************************************)
LEMMA OfferedKeeps ==
    ASSUME NEW capacity \in Nat \ {0}, NEW q \in Seq(Sample), Len(q) <= capacity,
           NEW s \in Sample
    PROVE  /\ Ring!Offered(q, capacity, s) \in Seq(Sample)
           /\ Len(Ring!Offered(q, capacity, s)) <= capacity
           /\ Members(Ring!Offered(q, capacity, s)) \subseteq Members(q) \cup {s}
           /\ Distinct(q) /\ s \notin Members(q) => Distinct(Ring!Offered(q, capacity, s))
  <1>1. CASE Len(q) < capacity
    <2>1. Ring!Offered(q, capacity, s) = Append(q, s)
      BY <1>1 DEF Ring!Offered
    <2>2. Len(q) + 1 <= capacity
      BY <1>1
    <2> QED
      BY <2>1, <2>2, AppendToQueue
  <1>2. CASE ~(Len(q) < capacity) /\ Ring!Offered(q, capacity, s) = q
    BY <1>2
  <1>3. CASE ~(Len(q) < capacity) /\ Ring!Offered(q, capacity, s) # q
    <2>1. Len(q) = capacity /\ q # <<>> /\ Len(q) \in Nat /\ DOMAIN q = 1..Len(q)
      BY <1>3
    <2>2. PICK v : v = CHOOSE w \in 1..Len(q) : Ring!IsVictim(q, w)
      OBVIOUS
    <2>3. v \in 1..Len(q)
      BY <2>1, <2>2, VictimExists
    <2>4. Ring!Offered(q, capacity, s) = Ring!Replace(q, v, s)
      BY <1>3, <2>2 DEF Ring!Offered
    <2>5. PICK r : r = Ring!Replace(q, v, s)
      OBVIOUS
    <2> DEFINE from(k) == IF k < v THEN k ELSE k + 1
    <2>6. /\ r = [k \in 1..Len(q) |-> r[k]]
          /\ r[Len(q)] = s
          /\ \A k \in 1..Len(q) : k # Len(q) => from(k) \in DOMAIN q /\ r[k] = q[from(k)]
      BY <2>1, <2>3, <2>5 DEF Ring!Replace
    <2>7. \A i, j \in 1..Len(q) : from(i) = from(j) => i = j
      BY <2>1, <2>3
    <2> HIDE DEF from
    <2>8. \A k \in 1..Len(q) : r[k] \in Sample
      BY <2>1, <2>6
    <2>9. r \in [1..Len(q) -> Sample]
      BY <2>6, <2>8
    <2>10. r \in Seq(Sample) /\ Len(r) = Len(q) /\ DOMAIN r = 1..Len(q)
      BY <2>1, <2>9, FunctionIsSequence
    <2>11. Members(r) \subseteq Members(q) \cup {s}
      BY <2>1, <2>6, <2>10 DEF Members
    <2>12. ASSUME Distinct(q), s \notin Members(q) PROVE Distinct(r)
      <3>1. \A k \in 1..Len(q) : k # Len(q) => r[k] # s
        BY <2>1, <2>6, <2>12 DEF Members
      <3>2. ASSUME NEW i \in 1..Len(q), NEW j \in 1..Len(q), r[i] = r[j] PROVE i = j
        BY <2>1, <2>6, <2>7, <2>12, <3>1, <3>2 DEF Distinct
      <3> QED
        BY <2>10, <3>2 DEF Distinct
    <2> QED
      BY <2>1, <2>4, <2>5, <2>10, <2>11, <2>12
  <1> QED
    BY <1>1, <1>2, <1>3

(***************************************************************************)
(* poll_channel offers the samples of a read one after the other: what the *)
(* ring holds then was in it, or has just been read.                       *)
(***************************************************************************)
LEMMA OfferedAllKeeps ==
    ASSUME NEW capacity \in Nat \ {0}, NEW q \in Seq(Sample), Len(q) <= capacity,
           NEW new \in Seq(Sample), Distinct(q), Distinct(new),
           Members(q) \cap Members(new) = {}
    PROVE  /\ Ring!OfferedAll(q, capacity, new) \in Seq(Sample)
           /\ Len(Ring!OfferedAll(q, capacity, new)) <= capacity
           /\ Members(Ring!OfferedAll(q, capacity, new)) \subseteq Members(q) \cup Members(new)
           /\ Distinct(Ring!OfferedAll(q, capacity, new))
  <1> DEFINE N == Len(new)
             V == {r \in Seq(Sample) : Len(r) <= capacity}
             F == [x \in (1..N) \X V |-> Ring!Offered(x[2], capacity, new[x[1]])]
             IsAfter(f) == f = [n \in 0..N |-> IF n = 0 THEN q
                                               ELSE Ring!Offered(f[n - 1], capacity, new[n])]
             after == CHOOSE f : IsAfter(f)
  <1>1. N \in Nat /\ DOMAIN new = 1..N /\ \A n \in 1..N : new[n] \in Sample
    OBVIOUS
  <1>2. \A n \in 1..N, r \in V : Ring!Offered(r, capacity, new[n]) \in V
    BY <1>1, OfferedKeeps
  <1>3. StepsWithin(F, N, V)
    BY <1>2 DEF StepsWithin
  <1>4. \A n \in 1..N, r \in V : F[<<n, r>>] = Ring!Offered(r, capacity, new[n])
    OBVIOUS
  <1>5. q \in V
    OBVIOUS
  <1>6. PICK f \in [0..N -> V] : Unfolds(f, q, F, N)
    <2> HIDE DEF F, V, N
    <2> QED
      BY <1>1, <1>3, <1>5, RecursionExists
  <1>7. IsAfter(f)
    <2>1. ASSUME NEW n \in 0..N PROVE f[n] = IF n = 0 THEN q ELSE Ring!Offered(f[n - 1], capacity, new[n])
      <3>1. n # 0 => n \in 1..N /\ n - 1 \in 0..N
        BY <1>1
      <3> HIDE DEF F, V, N
      <3>2. n # 0 => f[n - 1] \in V
        BY <3>1
      <3> QED
        BY <1>4, <1>6, <3>1, <3>2 DEF Unfolds
    <2>2. f = [n \in 0..N |-> f[n]]
      BY <1>6
    <2> HIDE DEF F, V, N
    <2> QED
      BY <2>1, <2>2
  <1>8. IsAfter(after)
    BY <1>7, Zenon
  <1>9. Ring!OfferedAll(q, capacity, new) = after[N]
    BY DEF Ring!OfferedAll
  <1> HIDE DEF F, after
  <1>10. after[0] = q /\ \A n \in 1..N : after[n] = Ring!Offered(after[n - 1], capacity, new[n])
    <2>1. \A n \in 0..N : after[n] = IF n = 0 THEN q
                                     ELSE Ring!Offered(after[n - 1], capacity, new[n])
      BY <1>8
    <2> QED
      BY <1>1, <2>1
  <1> DEFINE Seen(n) == {new[k] : k \in 1..n}
             Good(n) == /\ after[n] \in V /\ Distinct(after[n])
                        /\ Members(after[n]) \subseteq Members(q) \cup Seen(n)
             G == {n \in Nat : n <= N => Good(n)}
  <1>11. 0 \in G
    BY <1>5, <1>10
  <1>12. ASSUME NEW n \in Nat, n \in G PROVE n + 1 \in G
    <2>1. SUFFICES ASSUME n + 1 <= N PROVE Good(n + 1)
      OBVIOUS
    <2>2. Good(n) /\ n + 1 \in 1..N /\ after[n + 1] = Ring!Offered(after[n], capacity, new[n + 1])
      BY <1>1, <1>10, <1>12, <2>1
    <2>3. new[n + 1] \notin Seen(n) /\ new[n + 1] \in Members(new) /\ new[n + 1] \in Sample
      <3>1. \A k \in 1..n : k \in DOMAIN new /\ k # n + 1
        BY <1>1, <2>1
      <3>2. n + 1 \in DOMAIN new
        BY <1>1, <2>2
      <3> QED
        BY <1>1, <2>2, <3>1, <3>2 DEF Members, Distinct
    <2>4. Seen(n + 1) = Seen(n) \cup {new[n + 1]}
      OBVIOUS
    <2>5. new[n + 1] \notin Members(after[n])
      BY <2>2, <2>3
    <2> HIDE DEF N, Seen
    <2>6. after[n] \in Seq(Sample) /\ Len(after[n]) <= capacity
      BY <2>2
    <2>7. PICK r, s : r = after[n] /\ s = new[n + 1]
      OBVIOUS
    <2>8. /\ Ring!Offered(r, capacity, s) \in Seq(Sample)
          /\ Len(Ring!Offered(r, capacity, s)) <= capacity
          /\ Members(Ring!Offered(r, capacity, s)) \subseteq Members(r) \cup {s}
          /\ Distinct(Ring!Offered(r, capacity, s))
      <3>1. r \in Seq(Sample) /\ Len(r) <= capacity /\ s \in Sample
        BY <2>3, <2>6, <2>7
      <3>2. Distinct(r) /\ s \notin Members(r)
        BY <2>2, <2>5, <2>7
      <3> QED
        BY <3>1, <3>2, OfferedKeeps
    <2>9. Members(after[n]) \subseteq Members(q) \cup Seen(n)
      BY <2>2
    <2> QED
      BY <2>2, <2>4, <2>7, <2>8, <2>9
  <1>13. N \in G
    <2> HIDE DEF G
    <2> QED
      BY <1>1, <1>11, <1>12, InductionOnSet
  <1>14. Good(N)
    BY <1>1, <1>13
  <1>15. Seen(N) = Members(new)
    BY <1>1 DEF Members
  <1> QED
    BY <1>9, <1>14, <1>15

-----------------------------------------------------------------------------
(***************************************************************************)
(* on_sample() for one value sets a flag or leaves it, and never resets    *)
(* one; it remembers the value that triggered.                             *)
(***************************************************************************)
Immediate(ch) == Sync[ch].remote /\ Sync[ch].mode = "realtime"
Watched(ch)   == Sync[ch].remote /\ Sync[ch].mode = "on_change"

(***************************************************************************)
(* What on_sample() makes of the state of a channel, field by field.       *)
(***************************************************************************)
LEMMA AfterSampleIs ==
    ASSUME NEW ch \in Channel, NEW st \in RuntimeState(ch), NEW v \in Value
    PROVE  /\ AfterSample(st, ch, v) \in RuntimeState(ch)
           /\ AfterSample(st, ch, v).pending_realtime <=> st.pending_realtime \/ Immediate(ch)
           /\ AfterSample(st, ch, v).pending_on_change
                 <=> st.pending_on_change \/ Triggers(st, ch, v)
           /\ AfterSample(st, ch, v).has_uploaded_value
                 <=> st.has_uploaded_value \/ Triggers(st, ch, v)
           /\ AfterSample(st, ch, v).last_uploaded_value
                 = IF Triggers(st, ch, v) THEN v ELSE st.last_uploaded_value
  <1> DEFINE now == Triggers(st, ch, v)
  <1>1. Sync[ch] \in SyncConfig /\ Sync[ch].interval \in Nat /\ Sync[ch].remote \in BOOLEAN
    BY SyncAssumption DEF SyncConfig
  <1>2. now \in BOOLEAN /\ Immediate(ch) \in BOOLEAN
    BY <1>1 DEF Triggers, Immediate
  <1>3. /\ st.pending_realtime \in BOOLEAN /\ st.pending_on_change \in BOOLEAN
        /\ st.has_uploaded_value \in BOOLEAN /\ st.last_uploaded_value \in Value \cup {0}
        /\ st.age \in 0..Sync[ch].interval
        /\ DOMAIN st = {"pending_realtime", "pending_on_change", "has_uploaded_value",
                        "last_uploaded_value", "age"}
    BY DEF RuntimeState
  <1> DEFINE a1 == st.pending_realtime \/ Immediate(ch)
             b1 == st.pending_on_change \/ now
             h1 == st.has_uploaded_value \/ now
             x1 == IF now THEN v ELSE st.last_uploaded_value
  <1>4. AfterSample(st, ch, v) = [st EXCEPT !.pending_realtime = a1, !.pending_on_change = b1,
                                            !.has_uploaded_value = h1, !.last_uploaded_value = x1]
    BY Zenon DEF AfterSample, Immediate
  <1> HIDE DEF now
  <1>5. a1 \in BOOLEAN /\ b1 \in BOOLEAN /\ h1 \in BOOLEAN /\ x1 \in Value \cup {0}
    BY <1>2, <1>3, Zenon
  <1>6. PICK a \in BOOLEAN, b \in BOOLEAN, h \in BOOLEAN, x \in Value \cup {0} :
            a = a1 /\ b = b1 /\ h = h1 /\ x = x1
    BY <1>5, Zenon
  <1>7. AfterSample(st, ch, v) = [st EXCEPT !.pending_realtime = a, !.pending_on_change = b,
                                            !.has_uploaded_value = h, !.last_uploaded_value = x]
    BY <1>4, <1>6, Zenon
  <1> HIDE DEF a1, b1, h1, x1
  <1>8. /\ AfterSample(st, ch, v) \in RuntimeState(ch)
        /\ AfterSample(st, ch, v).pending_realtime = a
        /\ AfterSample(st, ch, v).pending_on_change = b
        /\ AfterSample(st, ch, v).has_uploaded_value = h
        /\ AfterSample(st, ch, v).last_uploaded_value = x
    BY <1>7 DEF RuntimeState
  <1> QED
    BY <1>6, <1>8, Zenon DEF now, a1, b1, h1, x1

(***************************************************************************)
(* A read shown to the policy value by value: the state of its channel     *)
(* stays a state, and the flags say whether some value set them.  Only a   *)
(* channel that is watched for changes asks for an upload on one, and the  *)
(* others are left alone.                                                  *)
(***************************************************************************)
LEMMA OnSamplesKeeps ==
    ASSUME NEW ch \in Channel, NEW values \in Seq(Value), PolicyTypeOK,
           on_samples(ch, values)
    PROVE  /\ PolicyTypeOK'
           /\ any_pending_realtime_' <=> any_pending_realtime_ \/ (values # <<>> /\ Immediate(ch))
           /\ FlagsAgree => FlagsAgree'
           /\ \A d \in Channel : d # ch => states'[d] = states[d]
           /\ Len(values) = 1 => states'[ch] = AfterSample(states[ch], ch, values[1])
           /\ ~Watched(ch) /\ states'[ch].pending_on_change => states[ch].pending_on_change
  <1> DEFINE N == Len(values)
             V == RuntimeState(ch)
  <1>1. PICK st : st = states[ch]
    OBVIOUS
  <1>2. st \in V /\ N \in Nat /\ DOMAIN values = 1..N /\ \A n \in 1..N : values[n] \in Value
    BY <1>1 DEF PolicyTypeOK
  <1> DEFINE F == [x \in (1..N) \X V |-> AfterSample(x[2], ch, values[x[1]])]
             IsAfter(f) == f = [n \in 0..N |-> IF n = 0 THEN states[ch]
                                               ELSE AfterSample(f[n - 1], ch, values[n])]
             after == CHOOSE f : IsAfter(f)
  <1>3. \A n \in 1..N, x \in V : AfterSample(x, ch, values[n]) \in V
    BY <1>2, AfterSampleIs
  <1>4. StepsWithin(F, N, V) /\ \A n \in 1..N, x \in V : F[<<n, x>>] = AfterSample(x, ch, values[n])
    BY <1>3 DEF StepsWithin
  <1>5. PICK f \in [0..N -> V] : Unfolds(f, st, F, N)
    <2> HIDE DEF F, V, N
    <2> QED
      BY <1>2, <1>4, RecursionExists
  <1>6. IsAfter(f)
    <2>1. ASSUME NEW n \in 0..N
          PROVE  f[n] = IF n = 0 THEN states[ch] ELSE AfterSample(f[n - 1], ch, values[n])
      <3>1. n # 0 => n \in 1..N /\ n - 1 \in 0..N
        BY <1>2
      <3> HIDE DEF F, V, N
      <3>2. n # 0 => f[n - 1] \in V
        BY <3>1
      <3> QED
        BY <1>1, <1>4, <1>5, <3>1, <3>2 DEF Unfolds
    <2>2. f = [n \in 0..N |-> f[n]]
      BY <1>5
    <2> HIDE DEF F, V, N
    <2> QED
      BY <2>1, <2>2
  <1>7. IsAfter(after)
    BY <1>6, Zenon
  <1>8. /\ states' = [states EXCEPT ![ch] = after[N]]
        /\ any_pending_realtime_' = (any_pending_realtime_ \/ (values # <<>> /\ Immediate(ch)))
        /\ any_pending_on_change_' =
              (any_pending_on_change_ \/ \E n \in 1..N : Triggers(after[n - 1], ch, values[n]))
    BY Zenon DEF on_samples, Immediate
  <1>9. PICK g : g = after
    OBVIOUS
  <1> HIDE DEF F, after
  <1>10. g[0] = st /\ \A n \in 1..N : g[n] = AfterSample(g[n - 1], ch, values[n])
    <2>1. \A n \in 0..N : g[n] = IF n = 0 THEN st ELSE AfterSample(g[n - 1], ch, values[n])
      BY <1>1, <1>7, <1>9
    <2>2. 0 \in 0..N /\ \A n \in 1..N : n \in 0..N /\ n # 0
      BY <1>2
    <2> QED
      BY <2>1, <2>2, Zenon
  <1> DEFINE Set(n)  == \E k \in 1..n : Triggers(g[k - 1], ch, values[k])
             Good(n) == /\ g[n] \in V
                        /\ g[n].pending_realtime <=> st.pending_realtime \/ (n # 0 /\ Immediate(ch))
                        /\ g[n].pending_on_change <=> st.pending_on_change \/ Set(n)
             G == {n \in Nat : n <= N => Good(n)}
  <1>11. 0 \in G
    BY <1>2, <1>10
  <1>12. ASSUME NEW n \in Nat, n \in G PROVE n + 1 \in G
    <2>1. SUFFICES ASSUME n + 1 <= N PROVE Good(n + 1)
      OBVIOUS
    <2>2. Good(n) /\ n + 1 \in 1..N /\ (n + 1) - 1 = n
      BY <1>2, <1>12, <2>1
    <2>3. g[n + 1] = AfterSample(g[n], ch, values[n + 1]) /\ values[n + 1] \in Value
      BY <1>2, <1>10, <2>2
    <2>4. /\ g[n + 1] \in V
          /\ g[n + 1].pending_realtime <=> g[n].pending_realtime \/ Immediate(ch)
          /\ g[n + 1].pending_on_change
                <=> g[n].pending_on_change \/ Triggers(g[n], ch, values[n + 1])
      <3>1. PICK x, v : x = g[n] /\ v = values[n + 1]
        OBVIOUS
      <3>2. x \in RuntimeState(ch) /\ v \in Value
        BY <2>2, <2>3, <3>1
      <3>3. /\ AfterSample(x, ch, v) \in RuntimeState(ch)
            /\ AfterSample(x, ch, v).pending_realtime <=> x.pending_realtime \/ Immediate(ch)
            /\ AfterSample(x, ch, v).pending_on_change
                  <=> x.pending_on_change \/ Triggers(x, ch, v)
        BY <3>2, AfterSampleIs
      <3> QED
        BY <2>3, <3>1, <3>3, Zenon
    <2>5. Set(n + 1) <=> Set(n) \/ Triggers(g[n], ch, values[n + 1])
      <3>1. 1..(n + 1) = (1..n) \cup {n + 1}
        OBVIOUS
      <3> QED
        BY <2>2, <3>1, Zenon
    <2>6. n + 1 # 0
      OBVIOUS
    <2> HIDE DEF Set
    <2> QED
      BY <2>2, <2>4, <2>5, <2>6, Zenon
  <1>13. N \in G
    <2> HIDE DEF G
    <2> QED
      BY <1>2, <1>11, <1>12, InductionOnSet
  <1>14. Good(N)
    BY <1>2, <1>13
  <1>15. N # 0 <=> values # <<>>
    OBVIOUS
  <1>16. PICK w : w = g[N]
    OBVIOUS
  <1>17. /\ DOMAIN states' = Channel /\ states'[ch] = w
         /\ \A d \in Channel : d # ch => states'[d] = states[d]
    BY <1>8, <1>9, <1>16 DEF PolicyTypeOK
  <1>18. any_pending_on_change_' = (any_pending_on_change_ \/ Set(N))
    BY <1>8, <1>9, Zenon
  <1>19. /\ w \in RuntimeState(ch)
         /\ w.pending_realtime <=> st.pending_realtime \/ (values # <<>> /\ Immediate(ch))
         /\ w.pending_on_change <=> st.pending_on_change \/ Set(N)
    BY <1>14, <1>15, <1>16, Zenon
  <1> HIDE DEF Set, N, V, G
  <1>20. PolicyTypeOK'
    <2>1. \A d \in Channel : states'[d] \in RuntimeState(d)
      BY <1>17, <1>19, Zenon DEF PolicyTypeOK
    <2>2. any_pending_realtime_' \in BOOLEAN /\ any_pending_on_change_' \in BOOLEAN
      BY <1>8, <1>18, Zenon
    <2> QED
      BY <1>17, <2>1, <2>2, Zenon DEF PolicyTypeOK, RuntimeState
  <1>21. ASSUME FlagsAgree PROVE FlagsAgree'
    <2>1. (\E d \in Channel : states'[d].pending_realtime)
             <=> (\E d \in Channel : states[d].pending_realtime) \/ (values # <<>> /\ Immediate(ch))
      BY <1>1, <1>17, <1>19, Zenon
    <2>2. (\E d \in Channel : states'[d].pending_on_change)
             <=> (\E d \in Channel : states[d].pending_on_change) \/ Set(N)
      BY <1>1, <1>17, <1>19, Zenon
    <2> QED
      BY <1>8, <1>18, <1>21, <2>1, <2>2, Zenon DEF FlagsAgree
  <1>22. Len(values) = 1 => states'[ch] = AfterSample(states[ch], ch, values[1])
    <2>1. N = 1 => g[N] = AfterSample(g[0], ch, values[1])
      BY <1>10
    <2> QED
      BY <1>1, <1>10, <1>16, <1>17, <2>1 DEF N
  <1>23. ASSUME ~Watched(ch), states'[ch].pending_on_change PROVE states[ch].pending_on_change
    <2>1. ~Set(N)
      BY <1>23, Zenon DEF Set, Triggers, Watched
    <2> QED
      BY <1>1, <1>17, <1>19, <1>23, <2>1, Zenon
  <1> QED
    BY <1>8, <1>17, <1>20, <1>21, <1>22, <1>23, Zenon

-----------------------------------------------------------------------------
(***************************************************************************)
(* A request the server takes in adds some of its samples, and leaves a    *)
(* point with the key of each of them that has a unit.                     *)
(***************************************************************************)
LEMMA InsertedHolds ==
    ASSUME NEW S, NEW request \in Seq(S)
    PROVE  /\ points \subseteq Server!Inserted(request)
           /\ Server!Inserted(request) \subseteq points \cup Members(request)
           /\ \A s \in Members(request) : HasUnit(s) =>
                 \E p \in Server!Inserted(request) : PayloadKey(p) = PayloadKey(s)
  <1> DEFINE after == Server!Inserted(request)
             known(k) == \E p \in points : PayloadKey(p) = PayloadKey(request[k])
  <1>1. DOMAIN request = 1..Len(request) /\ Len(request) \in Nat
    OBVIOUS
  <1>2. after = points \cup {request[k] : k \in {i \in DOMAIN request : Server!Inserts(request, i)}}
    BY DEF Server!Inserted
  <1>3. points \subseteq after /\ after \subseteq points \cup Members(request)
    BY <1>2 DEF Members
  <1>4. ASSUME NEW k \in DOMAIN request, HasUnit(request[k])
        PROVE  \E p \in after : PayloadKey(p) = PayloadKey(request[k])
    <2>1. CASE known(k)
      BY <1>3, <2>1
    <2>2. CASE ~known(k)
      <3> DEFINE same == {j \in DOMAIN request : /\ HasUnit(request[j])
                                               /\ PayloadKey(request[j]) = PayloadKey(request[k])}
      <3>1. same \subseteq Nat /\ same # {}
        BY <1>1, <1>4
      <3>2. PICK j \in same : \A i \in same : j <= i
        BY <3>1, LeastElement
      <3>3. \A i \in 1..(j - 1) : HasUnit(request[i]) => PayloadKey(request[i]) # PayloadKey(request[j])
        <4>1. \A i \in 1..(j - 1) : i \in DOMAIN request /\ ~(j <= i)
          BY <1>1, <3>2
        <4> QED
          BY <3>2, <4>1
      <3>4. \A p \in points : PayloadKey(p) # PayloadKey(request[j])
        BY <2>2, <3>2
      <3>5. Server!Inserts(request, j)
        BY <3>3, <3>4, Zenon DEF Server!Inserts
      <3>6. request[j] \in after
        BY <1>2, <3>2, <3>5
      <3> QED
        BY <3>2, <3>6
    <2> QED
      BY <2>1, <2>2
  <1> QED
    BY <1>3, <1>4 DEF Members

(***************************************************************************)
(* The longest interval is one of the intervals.                           *)
(***************************************************************************)
LEMMA AgeLimitIsLongest ==
    /\ AgeLimit \in Nat
    /\ \A ch \in Channel : Sync[ch].interval \in Nat /\ Sync[ch].interval <= AgeLimit
  <1> DEFINE I(k) == Sync[Order[k]].interval
             N == Len(Order)
             T == {n \in Nat : n \in 1..N => \E j \in 1..n : \A k \in 1..n : I(k) <= I(j)}
  <1>1. N \in Nat \ {0} /\ Channel = {Order[k] : k \in 1..N}
    BY RuntimeAssumption
  <1>2. \A ch \in Channel : Sync[ch].interval \in Nat
    BY SyncAssumption DEF SyncConfig
  <1>3. \A k \in 1..N : I(k) \in Nat
    BY <1>1, <1>2
  <1>4. 0 \in T
    OBVIOUS
  <1>5. ASSUME NEW n \in Nat, n \in T PROVE n + 1 \in T
    <2>1. SUFFICES ASSUME n + 1 \in 1..N PROVE \E j \in 1..(n + 1) : \A k \in 1..(n + 1) : I(k) <= I(j)
      OBVIOUS
    <2>2. CASE n = 0
      <3>1. \A k \in 1..(n + 1) : I(k) <= I(1)
        BY <1>3, <2>1, <2>2
      <3> QED
        BY <2>2, <3>1
    <2>3. CASE n # 0
      <3>1. n \in 1..N
        BY <1>1, <2>1, <2>3
      <3>2. PICK j \in 1..n : \A k \in 1..n : I(k) <= I(j)
        BY <1>5, <3>1
      <3>3. I(n + 1) \in Nat /\ \A k \in 1..n : I(k) \in Nat
        BY <1>1, <1>3, <2>1
      <3>4. 1..(n + 1) = (1..n) \cup {n + 1}
        OBVIOUS
      <3> HIDE DEF I
      <3>5. CASE I(n + 1) <= I(j)
        BY <3>2, <3>4, <3>5
      <3>6. CASE ~(I(n + 1) <= I(j))
        <4>1. \A k \in 1..(n + 1) : I(k) <= I(n + 1)
          BY <3>2, <3>3, <3>4, <3>6
        <4> QED
          BY <3>4, <4>1
      <3> QED
        BY <3>5, <3>6
    <2> QED
      BY <2>2, <2>3
  <1>6. N \in T
    <2> HIDE DEF T
    <2> QED
      BY <1>1, <1>4, <1>5, InductionOnSet
  <1>7. PICK j \in 1..N : \A k \in 1..N : I(k) <= I(j)
    BY <1>1, <1>6
  <1> DEFINE longest(n) == \A ch \in Channel : Sync[ch].interval <= n
             all == {Sync[ch].interval : ch \in Channel}
  <1>8. I(j) \in all /\ longest(I(j))
    BY <1>1, <1>7
  <1>9. AgeLimit = CHOOSE n \in all : longest(n)
    BY DEF AgeLimit
  <1>10. AgeLimit \in all /\ longest(AgeLimit)
    <2> HIDE DEF I, all, longest
    <2> QED
      BY <1>8, <1>9
  <1> QED
    BY <1>2, <1>10
=============================================================================
