-------------------------- MODULE PipelineProofs --------------------------
(***************************************************************************)
(* The safety of the pipeline for every length of the source, every size   *)
(* and number of buffers, every depth of the channel, and errors at either *)
(* end: no buffer is lost, shared or used after it was freed, memory is    *)
(* bounded, and the two pumps are the pipe that Pipe describes.            *)
(***************************************************************************)
EXTENDS Pipeline, FiniteSetTheorems, SequenceTheorems, TLAPS

\* The constants and the job have the types assumed of them.
JobFacts ==
  /\ SourceLen \in Nat /\ Initial \in Nat
  /\ Cap \in Nat \ {0} /\ Depth \in Nat \ {0}
  /\ None \notin Bufs
  /\ params.bad \in (1..SourceLen) \cup {None} /\ None \notin Nat
  /\ params.capacity \in 0..SourceLen
  /\ params.flushes \in BOOLEAN

LEMMA JobTypes ==
  ASSUME params \in Jobs
  PROVE  JobFacts
  BY PipelineAssumption DEF Params, JobFacts

\* The part of the invariant that speaks of one variable, or of a program
\* counter and what hangs on it.
Local ==
  /\ TypeOK
  /\ rtotal <= SourceLen /\ Len(file) <= params.capacity
  /\ WhoHolds /\ HowTheyEnd

-----------------------------------------------------------------------------
(* Facts about sequences of buffers. *)

LEMMA PopLast ==
  ASSUME NEW s \in Seq(Bufs), s # <<>>
  PROVE  /\ s[Len(s)] \in Bufs /\ Len(s) \in Nat \ {0}
         /\ SubSeq(s, 1, Len(s) - 1) \in Seq(Bufs)
         /\ Len(SubSeq(s, 1, Len(s) - 1)) = Len(s) - 1
         /\ \A i \in 1..Len(s) - 1 : SubSeq(s, 1, Len(s) - 1)[i] = s[i]
         /\ Range(s) = Range(SubSeq(s, 1, Len(s) - 1)) \cup {s[Len(s)]}
         /\ IsInjective(s) => /\ IsInjective(SubSeq(s, 1, Len(s) - 1))
                              /\ s[Len(s)] \notin Range(SubSeq(s, 1, Len(s) - 1))
  <1>1. Len(s) \in Nat \ {0}
    BY EmptySeq
  <1>2. \A i \in 1..Len(s) - 1 : s[i] \in Bufs
    BY <1>1, ElementOfSeq
  <1> DEFINE n == Len(s) - 1
  <1>3. 1 \in Int /\ n \in Int /\ \A i \in 1..n : s[i] \in Bufs
    BY <1>1, <1>2
  <1> HIDE DEF n
  <1>4. /\ SubSeq(s, 1, n) \in Seq(Bufs)
        /\ Len(SubSeq(s, 1, n)) = IF 1 <= n THEN n - 1 + 1 ELSE 0
        /\ \A i \in 1 .. n - 1 + 1 : SubSeq(s, 1, n)[i] = s[1 + i - 1]
    BY <1>3, SubSeqProperties
  <1>5. s[Len(s)] \in Bufs
    BY <1>1, ElementOfSeq
  <1>6. n \in Nat /\ n = Len(s) - 1
    BY <1>1 DEF n
  <1>7. Len(SubSeq(s, 1, n)) = n
    BY <1>4, <1>6
  <1>8. \A i \in 1..n : SubSeq(s, 1, n)[i] = s[i]
    <2>1. \A i \in 1..n : i \in 1 .. n - 1 + 1 /\ 1 + i - 1 = i
      BY <1>6
    <2> QED
      BY <1>4, <2>1
  <1> DEFINE p == SubSeq(s, 1, n)
  <1>9. p \in Seq(Bufs) /\ Len(p) = n /\ \A i \in 1..n : p[i] = s[i]
    BY <1>4, <1>7, <1>8
  <1> HIDE DEF p
  <1>10. DOMAIN p = 1..n /\ DOMAIN s = 1..n+1 /\ Len(s) = n + 1
    BY <1>6, <1>9
  <1>11. Range(s) = Range(p) \cup {s[Len(s)]}
    <2>1. \A i \in 1..n+1 : i \in 1..n \/ i = n + 1
      BY <1>6
    <2>2. \A i \in 1..n : i \in 1..n+1
      BY <1>6
    <2>3. n + 1 \in 1..n+1
      BY <1>6
    <2> QED
      BY <1>9, <1>10, <2>1, <2>2, <2>3 DEF Range
  <1>12. IsInjective(s) => IsInjective(p) /\ s[Len(s)] \notin Range(p)
    <2>1. \A i \in 1..n : i \in 1..n+1 /\ i # n + 1
      BY <1>6
    <2>2. n + 1 \in 1..n+1
      BY <1>6
    <2> QED
      BY <1>9, <1>10, <2>1, <2>2 DEF Range, IsInjective
  <1> QED
    BY <1>1, <1>5, <1>6, <1>9, <1>11, <1>12 DEF p

LEMMA PushLast ==
  ASSUME NEW s \in Seq(Bufs), NEW b \in Bufs
  PROVE  /\ Append(s, b) \in Seq(Bufs)
         /\ Len(Append(s, b)) = Len(s) + 1
         /\ \A i \in 1..Len(s) : Append(s, b)[i] = s[i]
         /\ Append(s, b)[Len(s) + 1] = b
         /\ Range(Append(s, b)) = Range(s) \cup {b}
         /\ IsInjective(s) /\ b \notin Range(s) => IsInjective(Append(s, b))
  <1> DEFINE p == Append(s, b)
             n == Len(s)
  <1>1. p \in Seq(Bufs) /\ Len(p) = n + 1 /\ (\A i \in 1..n : p[i] = s[i]) /\ p[n + 1] = b
    BY AppendProperties
  <1>2. n \in Nat /\ DOMAIN s = 1..n /\ DOMAIN p = 1..n+1
    BY <1>1
  <1> HIDE DEF p, n
  <1>3. /\ \A i \in 1..n+1 : i \in 1..n \/ i = n + 1
        /\ \A i \in 1..n : i \in 1..n+1
        /\ n + 1 \in 1..n+1
    BY <1>2
  <1>4. Range(p) = Range(s) \cup {b}
    BY <1>1, <1>2, <1>3 DEF Range
  <1>5. IsInjective(s) /\ b \notin Range(s) => IsInjective(p)
    BY <1>1, <1>2, <1>3 DEF Range, IsInjective
  <1> QED
    BY <1>1, <1>4, <1>5 DEF p, n

LEMMA PopFirst ==
  ASSUME NEW s \in Seq(Bufs), s # <<>>
  PROVE  /\ Head(s) \in Bufs /\ Head(s) = s[1]
         /\ Len(s) \in Nat \ {0}
         /\ Tail(s) \in Seq(Bufs)
         /\ Len(Tail(s)) = Len(s) - 1
         /\ \A i \in 1..Len(s) - 1 : Tail(s)[i] = s[i + 1]
         /\ Range(s) = Range(Tail(s)) \cup {Head(s)}
         /\ IsInjective(s) => IsInjective(Tail(s)) /\ Head(s) \notin Range(Tail(s))
  <1> DEFINE p == Tail(s)
             n == Len(s)
  <1>1. /\ Head(s) \in Bufs /\ Head(s) = s[1]
        /\ n \in Nat \ {0}
        /\ p \in Seq(Bufs) /\ Len(p) = n - 1
        /\ \A i \in 1..n - 1 : p[i] = s[i + 1]
    BY HeadTailProperties, EmptySeq
  <1>2. DOMAIN s = 1..n /\ DOMAIN p = 1..n-1
    BY <1>1
  <1> HIDE DEF p, n
  <1>3. /\ \A i \in 1..n : i = 1 \/ (i - 1 \in 1..n-1 /\ i - 1 + 1 = i)
        /\ \A i \in 1..n-1 : i + 1 \in 1..n /\ i + 1 # 1
        /\ \A i, j \in 1..n-1 : i + 1 = j + 1 => i = j
        /\ 1 \in 1..n
    BY <1>1
  <1>4. Range(s) = Range(p) \cup {s[1]}
    <2>1. ASSUME NEW i \in 1..n, i # 1
          PROVE  s[i] \in Range(p)
      <3>1. i - 1 \in 1..n-1 /\ i - 1 + 1 = i
        BY <1>3, <2>1
      <3>2. p[i - 1] = s[i - 1 + 1]
        BY <1>1, <3>1
      <3> QED
        BY <1>2, <3>1, <3>2 DEF Range
    <2>2. \A i \in 1..n-1 : p[i] \in Range(s)
      BY <1>1, <1>2, <1>3 DEF Range
    <2>3. Range(s) \subseteq Range(p) \cup {s[1]}
      BY <1>2, <2>1 DEF Range
    <2>4. Range(p) \subseteq Range(s) /\ s[1] \in Range(s)
      BY <1>2, <1>3, <2>2 DEF Range
    <2> QED
      BY <2>3, <2>4
  <1>5. IsInjective(s) => IsInjective(p) /\ s[1] \notin Range(p)
    <2> SUFFICES ASSUME IsInjective(s)
                 PROVE  IsInjective(p) /\ s[1] \notin Range(p)
      OBVIOUS
    <2>1. ASSUME NEW i \in 1..n-1, NEW j \in 1..n-1, p[i] = p[j]
          PROVE  i = j
      <3>1. p[i] = s[i + 1] /\ p[j] = s[j + 1] /\ i + 1 \in 1..n /\ j + 1 \in 1..n
        BY <1>1, <1>3
      <3>2. i + 1 = j + 1
        BY <1>2, <2>1, <3>1 DEF IsInjective
      <3> QED
        BY <1>3, <3>2
    <2>2. ASSUME NEW i \in 1..n-1
          PROVE  s[1] # p[i]
      <3>1. p[i] = s[i + 1] /\ i + 1 \in 1..n /\ i + 1 # 1 /\ 1 \in 1..n
        BY <1>1, <1>3
      <3> QED
        BY <1>2, <3>1 DEF IsInjective
    <2> QED
      BY <1>2, <2>1, <2>2 DEF Range, IsInjective
  <1> QED
    BY <1>1, <1>4, <1>5 DEF p, n

\* A sequence without repetitions is as long as its range is big.
LEMMA DistinctCount ==
  ASSUME NEW s \in Seq(Bufs), IsInjective(s)
  PROVE  IsFiniteSet(Range(s)) /\ Cardinality(Range(s)) = Len(s)
  <1>1. Len(s) \in Nat /\ DOMAIN s = 1..Len(s) /\ s \in [1..Len(s) -> Range(s)]
    BY LenProperties DEF Range
  <1>2. s \in Bijection(1..Len(s), Range(s))
    BY <1>1 DEF Bijection, Injection, Surjection, Range
  <1>3. ExistsBijection(1..Len(s), Range(s))
    BY <1>2 DEF ExistsBijection
  <1>4. IsFiniteSet(1..Len(s)) /\ Cardinality(1..Len(s)) = Len(s)
    <2> DEFINE n == Len(s)
    <2>1. n \in Nat /\ 1 \in Int /\ n \in Int
      BY <1>1
    <2> HIDE DEF n
    <2>2. IsFiniteSet(1..n) /\ Cardinality(1..n) = IF 1 > n THEN 0 ELSE n - 1 + 1
      BY <2>1, FS_Interval
    <2>3. Cardinality(1..n) = n
      BY <2>1, <2>2
    <2> QED
      BY <2>2, <2>3 DEF n
  <1> QED
    BY <1>3, <1>4, FS_Bijection

-----------------------------------------------------------------------------
(* What the writer takes from its buffer. *)

LEMMA Slice ==
  ASSUME PInv, wpc = "write"
  PROVE  /\ wbuf \in Bufs /\ len[wbuf] \in 1..Cap /\ wresult = "None"
         /\ AsSlice(wbuf) \in Seq(1..SourceLen)
         /\ Len(AsSlice(wbuf)) = len[wbuf]
         /\ \A i \in 1..len[wbuf] : AsSlice(wbuf)[i] = Len(file) + i
  <1>j. JobFacts
    BY JobTypes DEF PInv, TypeOK
  <1>1. wbuf \in Bufs /\ wresult = "None"
    BY DEF PInv, WhoHolds, HowTheyEnd, TypeOK
  <1>2. /\ len[wbuf] \in 0..Cap /\ mem[wbuf] \in [1..Cap -> 0..SourceLen]
        /\ wtotal \in Nat
    BY <1>1 DEF PInv, TypeOK
  <1>3. Run(wbuf) /\ First(wbuf) = wtotal + 1 /\ Len(file) = wtotal
    BY <1>1 DEF PInv, UnderWay
  <1>4. \A i \in 1..len[wbuf] : mem[wbuf][i] = wtotal + i /\ mem[wbuf][i] \in 1..SourceLen
    <2> SUFFICES ASSUME NEW i \in 1..len[wbuf]
                 PROVE  mem[wbuf][i] = wtotal + i /\ mem[wbuf][i] \in 1..SourceLen
      OBVIOUS
    <2>1. mem[wbuf][i] = mem[wbuf][1] + i - 1 /\ mem[wbuf][1] = wtotal + 1
      BY <1>3 DEF Run, First
    <2>2. i \in 1..Cap
      BY <1>j, <1>2 DEF JobFacts
    <2>3. mem[wbuf][i] \in 0..SourceLen
      BY <1>2, <2>2
    <2> QED
      BY <1>j, <1>2, <2>1, <2>2, <2>3 DEF JobFacts
  <1>5. /\ AsSlice(wbuf) \in Seq(1..SourceLen)
        /\ Len(AsSlice(wbuf)) = len[wbuf]
        /\ \A i \in 1..len[wbuf] : AsSlice(wbuf)[i] = mem[wbuf][i]
    <2>1. 1 \in Int /\ len[wbuf] \in Int /\ 1 <= len[wbuf]
      BY <1>2, <1>3, <1>j DEF Run, JobFacts
    <2>2. SubSeq(mem[wbuf], 1, len[wbuf]) \in Seq(1..SourceLen)
      BY <1>4, <2>1, SubSeqProperties
    <2>3. Len(SubSeq(mem[wbuf], 1, len[wbuf])) = len[wbuf] - 1 + 1
      BY <1>4, <2>1, SubSeqProperties
    <2>4. \A i \in 1..len[wbuf] - 1 + 1 : SubSeq(mem[wbuf], 1, len[wbuf])[i] = mem[wbuf][1 + i - 1]
      BY <1>4, <2>1, SubSeqProperties
    <2>5. \A i \in 1..len[wbuf] : 1 + i - 1 = i /\ i \in 1..len[wbuf] - 1 + 1
      BY <2>1
    <2> QED
      BY <2>1, <2>2, <2>3, <2>4, <2>5 DEF AsSlice
  <1> QED
    BY <1>1, <1>2, <1>3, <1>4, <1>5, <1>j DEF Run, JobFacts

-----------------------------------------------------------------------------
(* The local part of the invariant, step by step. *)

\* There is an allocation to be had: fewer are live than there are names.
LEMMA FreshExists ==
  ASSUME PInv, rpc = "pop", free = <<>>
  PROVE  /\ Fresh \in Bufs \ live
         /\ IsFiniteSet(live) /\ Cardinality(live) <= Depth + 1
  <1> DEFINE C == Range(chan)
  <1>j. JobFacts /\ IsFiniteSet(Bufs) /\ Cardinality(Bufs) > Initial + Depth + 2
    BY JobTypes, PipelineAssumption DEF PInv, TypeOK
  <1>1. chan \in Seq(Bufs) /\ Len(chan) <= Depth /\ live \subseteq Bufs
    BY DEF PInv, TypeOK
  <1>2. IsFiniteSet(C) /\ Cardinality(C) = Len(chan)
    BY <1>1, DistinctCount DEF PInv, OneOwner
  <1>3. rbuf = None
    BY DEF PInv, WhoHolds
  <1>4. Range(free) = {}
    BY EmptySeq DEF Range
  <1>5. live \subseteq C \cup {wbuf}
    BY <1>3, <1>4 DEF PInv, OneOwner, Places
  <1>6. IsFiniteSet(C \cup {wbuf}) /\ Cardinality(C \cup {wbuf}) <= Len(chan) + 1
    <2> HIDE DEF C
    <2>1. Len(chan) \in Nat
      BY <1>1, LenProperties
    <2>2. /\ IsFiniteSet(C \cup {wbuf})
          /\ \/ Cardinality(C \cup {wbuf}) = Cardinality(C)
             \/ Cardinality(C \cup {wbuf}) = Cardinality(C) + 1
      BY <1>2, FS_AddElement
    <2> QED
      BY <1>2, <2>1, <2>2
  <1>7. IsFiniteSet(live) /\ Cardinality(live) <= Depth + 1
    <2>1. IsFiniteSet(live) /\ Cardinality(live) <= Cardinality(C \cup {wbuf})
      BY <1>5, <1>6, FS_Subset
    <2>2. Cardinality(live) \in Nat /\ Cardinality(C \cup {wbuf}) \in Nat /\ Len(chan) \in Nat
      BY <1>6, <2>1, <1>1, FS_CardinalityType
    <2> QED
      BY <1>j, <1>1, <1>6, <2>1, <2>2 DEF JobFacts
  <1>8. \E b \in Bufs : b \notin live
    <2>1. Cardinality(live) \in Nat /\ Cardinality(Bufs) \in Nat
      BY <1>j, <1>7, FS_CardinalityType
    <2>2. live # Bufs
      BY <1>j, <1>7, <2>1 DEF JobFacts
    <2> QED
      BY <1>1, <2>2
  <1> QED
    BY <1>7, <1>8 DEF Fresh

LEMMA ReaderKeepsLocal ==
  ASSUME PInv, Reader
  PROVE  Local'
  <1>j. JobFacts
    BY JobTypes DEF PInv, TypeOK
  <1> USE <1>j DEF Local, PInv, TypeOK, JobFacts, pool, reader, writer
  <1>1. CASE RAcquire
    BY <1>1 DEF RAcquire, WhoHolds, HowTheyEnd
  <1>2. CASE RPop
    <2>1. /\ rpc = "pop" /\ rpc' = "read" /\ lock' = "none"
          /\ UNCHANGED <<params, mem, chan, rx_open, rtotal, rresult, wpc, wbuf, wtotal, wresult, file>>
          /\ len' = [len EXCEPT ![rbuf'] = 0]
      BY <1>2 DEF RPop
    <2>2. rbuf' \in Bufs /\ live' \subseteq Bufs /\ free' \in Seq(Bufs)
      <3>1. CASE free # <<>>
        <4>1. rbuf' = free[Len(free)] /\ free' = SubSeq(free, 1, Len(free) - 1) /\ live' = live
          BY <1>2, <3>1 DEF RPop, Take
        <4>2. free \in Seq(Bufs) /\ live \subseteq Bufs
          OBVIOUS
        <4> HIDE DEF Local, PInv, TypeOK
        <4> QED
          BY <3>1, <4>1, <4>2, PopLast
      <3>2. CASE free = <<>>
        BY <1>2, <2>1, <3>2, FreshExists DEF RPop, Take
      <3> QED
        BY <3>1, <3>2
    <2>3. TypeOK'
      <3>1. len' \in [Bufs -> 0..Cap]
        BY <2>1, <2>2
      <3> QED
        BY <2>1, <2>2, <3>1
    <2>4. WhoHolds' /\ HowTheyEnd'
      BY <2>1, <2>2 DEF WhoHolds, HowTheyEnd
    <2> QED
      BY <2>1, <2>3, <2>4
  <1>3. ASSUME NEW n \in 1..Cap, RRead(n)
        PROVE  Local'
    <2> USE <1>3 DEF RRead
    <2>1. rbuf \in Bufs
      BY DEF WhoHolds
    <2>2. Filled(rbuf, n) \in [1..Cap -> 0..SourceLen]
      <3>1. ASSUME NEW i \in 1..Cap
            PROVE  (IF i <= n THEN rtotal + i ELSE mem[rbuf][i]) \in 0..SourceLen
        <4>1. mem[rbuf][i] \in 0..SourceLen
          BY <2>1
        <4>2. i <= n => rtotal + i \in 0..SourceLen
          <5> HIDE DEF TypeOK, PInv, Local
          <5>1. rtotal \in Nat /\ rtotal + n <= SourceLen /\ n \in Nat /\ i \in Nat
            BY DEF PInv, TypeOK
          <5> QED
            BY <5>1
        <4> QED
          BY <4>1, <4>2
      <3> QED
        BY <3>1 DEF Filled
    <2>3. TypeOK'
      <3>1. mem' \in [Bufs -> [1..Cap -> 0..SourceLen]]
        BY <2>1, <2>2
      <3>2. len' \in [Bufs -> 0..Cap]
        BY <2>1
      <3>3. rtotal' \in Nat /\ rpc' = "send"
        OBVIOUS
      <3> QED
        BY <3>1, <3>2, <3>3
    <2>4. WhoHolds' /\ HowTheyEnd'
      BY DEF WhoHolds, HowTheyEnd
    <2> QED
      BY <2>3, <2>4
  <1>4. ASSUME NEW r \in {"Ok", "Err"}, REnd(r)
        PROVE  Local'
    BY <1>4 DEF REnd, WhoHolds, HowTheyEnd, Results
  <1>5. CASE RSend
    <2> USE <1>5 DEF RSend
    <2>1. rbuf \in Bufs
      BY DEF WhoHolds
    <2>2. chan' \in Seq(Bufs) /\ Len(chan') <= Depth
      BY <2>1, PushLast
    <2>3. TypeOK' /\ WhoHolds' /\ HowTheyEnd'
      BY <2>2 DEF WhoHolds, HowTheyEnd
    <2> QED
      BY <2>3
  <1>6. CASE RSendFails
    BY <1>6 DEF RSendFails, WhoHolds, HowTheyEnd, Results
  <1>7. CASE RDrop
    BY <1>7 DEF RDrop, TryLock, Dealloc, WhoHolds, HowTheyEnd
  <1>8. CASE RPush
    <2>1. rbuf \in Bufs
      BY <1>8 DEF RPush, WhoHolds
    <2>2. free' \in Seq(Bufs)
      BY <1>8, <2>1, PushLast DEF RPush, Push
    <2> QED
      BY <1>8, <2>2 DEF RPush, Push, WhoHolds, HowTheyEnd
  <1> QED
    BY <1>1, <1>2, <1>3, <1>4, <1>5, <1>6, <1>7, <1>8 DEF Reader

\* What the sink has got after a write, all of it or a part.
LEMMA Written ==
  ASSUME PInv, wpc = "write", NEW n \in 0..len[wbuf],
         file' = file \o SubSeq(AsSlice(wbuf), 1, n)
  PROVE  /\ file' \in Seq(1..SourceLen)
         /\ Len(file') = Len(file) + n
         /\ file' = file \o [i \in 1..n |-> Len(file) + i]
  <1> DEFINE s == SubSeq(AsSlice(wbuf), 1, n)
             u == [i \in 1..n |-> Len(file) + i]
  <1>j. JobFacts /\ file \in Seq(1..SourceLen) /\ Len(file) \in Nat
    BY JobTypes, LenProperties DEF PInv, TypeOK
  <1>0. n \in Nat /\ 1 \in Int /\ n \in Int /\ len[wbuf] \in 1..Cap /\ Cap \in Nat
    BY <1>j, Slice DEF JobFacts
  <1>1. \A i \in 1..n : AsSlice(wbuf)[i] \in 1..SourceLen /\ AsSlice(wbuf)[i] = Len(file) + i
    <2>1. \A i \in 1..n : i \in 1..len[wbuf]
      BY <1>0
    <2> QED
      BY <2>1, Slice, ElementOfSeq
  <1>2. /\ s \in Seq(1..SourceLen)
        /\ Len(s) = IF 1 <= n THEN n - 1 + 1 ELSE 0
        /\ \A i \in 1 .. n - 1 + 1 : s[i] = AsSlice(wbuf)[1 + i - 1]
    BY <1>0, <1>1, SubSeqProperties
  <1>3. Len(s) = n
    BY <1>0, <1>2
  <1>4. \A i \in 1..n : s[i] = Len(file) + i
    <2>1. \A i \in 1..n : i \in 1 .. n - 1 + 1 /\ 1 + i - 1 = i
      BY <1>0
    <2> QED
      BY <1>1, <1>2, <2>1
  <1>5. u \in Seq(Nat) /\ Len(u) = n
    BY <1>0, <1>j
  <1>6. s \in Seq(Nat)
    BY <1>2, SeqMonotonic
  <1>7. s = u
    BY <1>3, <1>4, <1>5, <1>6, SeqEqual
  <1>8. file \o s \in Seq(1..SourceLen) /\ Len(file \o s) = Len(file) + n
    BY <1>j, <1>2, <1>3, ConcatProperties
  <1> QED
    BY <1>7, <1>8

LEMMA WriterKeepsLocal ==
  ASSUME PInv, Writer
  PROVE  Local'
  <1>j. JobFacts /\ Len(file) \in Nat /\ Len(chan) \in Nat
    BY JobTypes, LenProperties DEF PInv, TypeOK
  <1> USE <1>j DEF Local, PInv, TypeOK, JobFacts, pool, reader, writer
  <1>1. CASE WRecv
    <2>1. /\ wbuf' \in Bufs /\ chan' \in Seq(Bufs) /\ Len(chan') <= Depth
      BY <1>1, PopFirst DEF WRecv
    <2>2. TypeOK' /\ WhoHolds'
      BY <1>1, <2>1 DEF WRecv, WhoHolds
    <2>3. HowTheyEnd'
      BY <1>1 DEF WRecv, HowTheyEnd
    <2> QED
      BY <1>1, <2>2, <2>3 DEF WRecv
  <1>2. CASE WRecvClosed
    BY <1>2 DEF WRecvClosed, WhoHolds, HowTheyEnd
  <1>3. CASE WWrite
    <2>1. len[wbuf] \in 1..Cap /\ wresult = "None" /\ wbuf \in Bufs
      BY <1>3, Slice DEF WWrite
    <2>2. SubSeq(AsSlice(wbuf), 1, len[wbuf]) = AsSlice(wbuf)
      BY <1>3, Slice, SubSeqFull DEF WWrite
    <2>3. file' \in Seq(1..SourceLen) /\ Len(file') = Len(file) + len[wbuf]
      <3> HIDE DEF Local, PInv, TypeOK
      <3>1. file' = file \o SubSeq(AsSlice(wbuf), 1, len[wbuf]) /\ wpc = "write"
        BY <1>3, <2>2 DEF WWrite
      <3>2. len[wbuf] \in 0..len[wbuf]
        BY <2>1
      <3> QED
        BY <3>1, <3>2, Written
    <2>4. Len(file') <= params.capacity /\ wtotal' \in Nat
      <3> HIDE DEF Local, PInv, TypeOK
      <3>1. params.capacity \in Nat /\ wtotal \in Nat /\ len[wbuf] \in Nat
        BY <2>1 DEF PInv, TypeOK
      <3> QED
        BY <1>3, <2>3, <3>1 DEF WWrite, Room
    <2>5. TypeOK'
      BY <1>3, <2>3, <2>4 DEF WWrite
    <2> QED
      BY <1>3, <2>1, <2>4, <2>5 DEF WWrite, WhoHolds, HowTheyEnd
  <1>4. CASE WWriteError
    <2>1. len[wbuf] \in 1..Cap /\ wresult = "None" /\ wbuf \in Bufs
      BY <1>4, Slice DEF WWriteError
    <2>2. Room \in 0..len[wbuf] /\ Room \in Nat /\ Room = params.capacity - Len(file)
      <3>1. params.capacity \in Nat /\ len[wbuf] \in Nat /\ Len(file) <= params.capacity
        BY <2>1
      <3> HIDE DEF Local, PInv, TypeOK
      <3> QED
        BY <1>4, <3>1 DEF WWriteError, Room
    <2>3. file' \in Seq(1..SourceLen) /\ Len(file') = Len(file) + Room
      <3> HIDE DEF Local, PInv, TypeOK
      <3>1. file' = file \o SubSeq(AsSlice(wbuf), 1, Room) /\ wpc = "write"
        BY <1>4 DEF WWriteError
      <3> QED
        BY <3>1, <2>2, Written
    <2>4. Len(file') <= params.capacity
      <3> HIDE DEF Local, PInv, TypeOK
      <3>1. params.capacity \in Nat
        OBVIOUS
      <3> QED
        BY <2>2, <2>3, <3>1
    <2>5. TypeOK'
      BY <1>4, <2>3, <2>4 DEF WWriteError, Results
    <2> QED
      BY <1>4, <2>1, <2>4, <2>5 DEF WWriteError, WhoHolds, HowTheyEnd
  <1>5. CASE WDrop
    BY <1>5 DEF WDrop, TryLock, Dealloc, AfterDrop, WhoHolds, HowTheyEnd
  <1>6. CASE WPush
    <2>1. wbuf \in Bufs
      BY <1>6 DEF WPush, WhoHolds
    <2>2. free' \in Seq(Bufs)
      BY <1>6, <2>1, PushLast DEF WPush, Push
    <2> QED
      BY <1>6, <2>2 DEF WPush, Push, AfterDrop, WhoHolds, HowTheyEnd
  <1>7. CASE WFlush
    BY <1>7 DEF WFlush, WhoHolds, HowTheyEnd, Results
  <1>8. CASE WClose
    <2>1. CASE chan = <<>>
      BY <1>8, <2>1 DEF WClose, WhoHolds, HowTheyEnd
    <2>2. CASE chan # <<>>
      <3>1. wbuf' \in Bufs /\ chan' \in Seq(Bufs) /\ Len(chan') <= Depth
        <4>1. wbuf' = Head(chan) /\ chan' = Tail(chan) /\ chan \in Seq(Bufs) /\ Len(chan) <= Depth
          BY <1>8, <2>2 DEF WClose
        <4> HIDE DEF Local, PInv, TypeOK
        <4>2. Head(chan) \in Bufs /\ Tail(chan) \in Seq(Bufs) /\ Len(Tail(chan)) = Len(chan) - 1
          BY <4>1, <2>2, PopFirst
        <4> QED
          BY <4>1, <4>2
      <3> QED
        BY <1>8, <2>2, <3>1 DEF WClose, WhoHolds, HowTheyEnd
    <2> QED
      BY <2>1, <2>2
  <1> QED
    BY <1>1, <1>2, <1>3, <1>4, <1>5, <1>6, <1>7, <1>8 DEF Writer

-----------------------------------------------------------------------------
(* Nobody loses a buffer, and no two share one. *)

\* The allocations in the pool and in the channel are allocations.
LEMMA InRange ==
  ASSUME NEW s \in Seq(Bufs)
  PROVE  Range(s) \subseteq Bufs
  BY LenProperties, ElementOfSeq DEF Range

LEMMA ReaderKeepsOwners ==
  ASSUME PInv, Reader
  PROVE  OneOwner'
  <1>j. JobFacts /\ free \in Seq(Bufs) /\ chan \in Seq(Bufs) /\ OneOwner /\ WhoHolds
        /\ wbuf \in Bufs \cup {None} /\ rbuf \in Bufs \cup {None}
    BY JobTypes DEF PInv, TypeOK
  <1>r. Range(free) \subseteq Bufs /\ Range(chan) \subseteq Bufs
    BY <1>j, InRange
  <1>1. CASE RAcquire
    BY <1>1, <1>j DEF RAcquire, OneOwner, Places, writer
  <1>2. CASE RPop
    <2>1. rpc = "pop" /\ rbuf = None /\ UNCHANGED <<chan, wbuf>>
      BY <1>2, <1>j DEF RPop, WhoHolds, writer
    <2>2. CASE free # <<>> /\ rbuf' = free[Len(free)] /\ free' = SubSeq(free, 1, Len(free) - 1) /\ live' = live
      <3>1. /\ Range(free) = Range(free') \cup {rbuf'} /\ rbuf' \in Bufs
            /\ IsInjective(free') /\ rbuf' \notin Range(free')
        BY <1>j, <2>2, PopLast DEF OneOwner
      <3> QED
        BY <1>j, <2>1, <2>2, <3>1 DEF OneOwner, Places, JobFacts
    <2>3. CASE free = <<>> /\ rbuf' = Fresh /\ live' = live \cup {Fresh} /\ free' = free
      <3>1. Fresh \in Bufs \ live
        BY <2>1, <2>3, FreshExists
      <3> QED
        BY <1>j, <2>1, <2>3, <3>1 DEF OneOwner, Places, JobFacts
    <2> QED
      BY <1>2, <2>2, <2>3 DEF RPop, Take
  <1>3. ASSUME NEW n \in 1..Cap, RRead(n)
        PROVE  OneOwner'
    BY <1>3, <1>j DEF RRead, OneOwner, Places, pool, writer
  <1>4. ASSUME NEW r \in {"Ok", "Err"}, REnd(r)
        PROVE  OneOwner'
    BY <1>4, <1>j DEF REnd, OneOwner, Places, pool, writer
  <1>5. CASE RSend
    <2>1. /\ chan' = Append(chan, rbuf) /\ rbuf' = None /\ rbuf \in Bufs
          /\ UNCHANGED <<free, live, wbuf>>
      BY <1>5, <1>j DEF RSend, WhoHolds, pool, writer
    <2>2. Range(chan') = Range(chan) \cup {rbuf} /\ IsInjective(chan')
      BY <1>j, <2>1, PushLast DEF OneOwner
    <2> QED
      BY <1>j, <1>r, <2>1, <2>2 DEF OneOwner, Places, JobFacts
  <1>6. CASE RSendFails
    BY <1>6, <1>j DEF RSendFails, OneOwner, Places, pool, writer
  <1>7. CASE RDrop
    <2>1. rbuf \in Bufs /\ UNCHANGED <<free, chan, wbuf>>
      BY <1>7, <1>j DEF RDrop, TryLock, Dealloc, WhoHolds, writer
    <2>2. CASE UNCHANGED <<live, rbuf>>
      BY <1>j, <2>1, <2>2 DEF OneOwner, Places
    <2>3. CASE live' = live \ {rbuf} /\ rbuf' = None
      BY <1>j, <1>r, <2>1, <2>3 DEF OneOwner, Places, JobFacts
    <2> QED
      BY <1>7, <2>2, <2>3 DEF RDrop, TryLock, Dealloc
  <1>8. CASE RPush
    <2>1. /\ free' = Append(free, rbuf) /\ rbuf' = None /\ rbuf \in Bufs
          /\ UNCHANGED <<chan, live, wbuf>>
      BY <1>8, <1>j DEF RPush, Push, WhoHolds, pool, writer
    <2>2. Range(free') = Range(free) \cup {rbuf} /\ IsInjective(free')
      BY <1>j, <2>1, PushLast DEF OneOwner
    <2> QED
      BY <1>j, <1>r, <2>1, <2>2 DEF OneOwner, Places, JobFacts
  <1> QED
    BY <1>1, <1>2, <1>3, <1>4, <1>5, <1>6, <1>7, <1>8 DEF Reader

LEMMA WriterKeepsOwners ==
  ASSUME PInv, Writer
  PROVE  OneOwner'
  <1>j. JobFacts /\ free \in Seq(Bufs) /\ chan \in Seq(Bufs) /\ OneOwner /\ WhoHolds
        /\ wbuf \in Bufs \cup {None} /\ rbuf \in Bufs \cup {None}
    BY JobTypes DEF PInv, TypeOK
  <1>r. Range(free) \subseteq Bufs /\ Range(chan) \subseteq Bufs
    BY <1>j, InRange
  <1>1. ASSUME chan # <<>>, wbuf = None,
               wbuf' = Head(chan), chan' = Tail(chan), UNCHANGED <<free, live, rbuf>>
        PROVE  OneOwner'
    <2>1. /\ Range(chan) = Range(chan') \cup {wbuf'} /\ wbuf' \in Bufs
          /\ IsInjective(chan') /\ wbuf' \notin Range(chan')
      BY <1>j, <1>1, PopFirst DEF OneOwner
    <2> QED
      BY <1>j, <1>1, <2>1 DEF OneOwner, Places, JobFacts
  <1>2. CASE WRecv
    <2>1. chan # <<>> /\ wbuf = None /\ wbuf' = Head(chan) /\ chan' = Tail(chan)
          /\ UNCHANGED <<free, live, rbuf>>
      BY <1>2, <1>j DEF WRecv, WhoHolds, pool, reader
    <2> QED
      BY <1>1, <2>1
  <1>3. CASE WRecvClosed \/ WWrite \/ WWriteError \/ WFlush
    BY <1>3, <1>j DEF WRecvClosed, WWrite, WWriteError, WFlush, OneOwner, Places, pool, reader
  <1>5. CASE WDrop
    <2>1. wbuf \in Bufs /\ UNCHANGED <<free, chan, rbuf>>
      BY <1>5, <1>j DEF WDrop, TryLock, Dealloc, WhoHolds, reader
    <2>2. CASE UNCHANGED <<live, wbuf>>
      BY <1>j, <2>1, <2>2 DEF OneOwner, Places
    <2>3. CASE live' = live \ {wbuf} /\ wbuf' = None
      BY <1>j, <1>r, <2>1, <2>3 DEF OneOwner, Places, JobFacts
    <2> QED
      BY <1>5, <2>2, <2>3 DEF WDrop, TryLock, Dealloc
  <1>6. CASE WPush
    <2>1. /\ free' = Append(free, wbuf) /\ wbuf' = None /\ wbuf \in Bufs
          /\ UNCHANGED <<chan, live, rbuf>>
      BY <1>6, <1>j DEF WPush, Push, WhoHolds, pool, reader
    <2>2. Range(free') = Range(free) \cup {wbuf} /\ IsInjective(free')
      BY <1>j, <2>1, PushLast DEF OneOwner
    <2> QED
      BY <1>j, <1>r, <2>1, <2>2 DEF OneOwner, Places, JobFacts
  <1>8. CASE WClose
    <2>1. CASE chan = <<>>
      BY <1>8, <1>j, <2>1 DEF WClose, OneOwner, Places, pool, reader
    <2>2. CASE chan # <<>>
      <3>1. wbuf = None /\ wbuf' = Head(chan) /\ chan' = Tail(chan) /\ UNCHANGED <<free, live, rbuf>>
        BY <1>8, <1>j, <2>2 DEF WClose, WhoHolds, pool, reader
      <3> QED
        BY <1>1, <2>2, <3>1
    <2> QED
      BY <2>1, <2>2
  <1> QED
    BY <1>2, <1>3, <1>5, <1>6, <1>8 DEF Writer

\* What is live shrinks, except when the reader finds the pool empty.
LEMMA StepKeepsMemory ==
  ASSUME PInv, Next
  PROVE  MemoryIsBounded'
  <1>j. JobFacts /\ live \subseteq Bufs /\ MemoryIsBounded
    BY JobTypes DEF PInv, TypeOK
  <1>f. IsFiniteSet(live) /\ Cardinality(live) \in Nat
    BY <1>j, PipelineAssumption, FS_Subset, FS_CardinalityType
  <1>1. CASE live' \subseteq live
    <2>1. Cardinality(live') <= Cardinality(live) /\ Cardinality(live') \in Nat
      BY <1>f, <1>1, FS_Subset, FS_CardinalityType
    <2> QED
      BY <1>j, <1>f, <2>1 DEF MemoryIsBounded, JobFacts
  <1>2. CASE rpc = "pop" /\ free = <<>> /\ live' = live \cup {Fresh}
    <2>1. Fresh \notin live /\ Cardinality(live) <= Depth + 1
      BY <1>2, FreshExists
    <2>2. Cardinality(live') = Cardinality(live) + 1
      BY <1>2, <1>f, <2>1, FS_AddElement
    <2> QED
      BY <1>j, <1>f, <2>1, <2>2 DEF MemoryIsBounded, JobFacts
  <1>3. Reader => live' \subseteq live \/ (rpc = "pop" /\ free = <<>> /\ live' = live \cup {Fresh})
    BY DEF Reader, RAcquire, RPop, Take, RRead, REnd, RSend, RSendFails, RDrop, RPush,
           TryLock, Dealloc, Push, pool, vars
  <1>4. Writer \/ Idle => live' \subseteq live
    BY DEF Writer, WRecv, WRecvClosed, WWrite, WWriteError, WDrop, WPush, WFlush, WClose,
           TryLock, Dealloc, Push, Idle, pool, vars
  <1> QED
    BY <1>1, <1>2, <1>3, <1>4 DEF Next

-----------------------------------------------------------------------------
(* What is under way follows what is written. *)

LEMMA OneMore ==
  ASSUME NEW a \in Nat, NEW c \in Nat
  PROVE  (a + 1) * c = a * c + c /\ a * c \in Nat
  OBVIOUS

LEMMA AtMost ==
  ASSUME NEW a \in Nat, NEW b \in Nat, NEW c \in Nat, a <= b
  PROVE  a * c <= b * c
  OBVIOUS

\* The marks the invariant speaks of are numbers.
LEMMA Marks ==
  ASSUME PInv
  PROVE  /\ \A b \in Bufs : /\ First(b) \in 0..SourceLen /\ len[b] \in 0..Cap
                            /\ Behind(b) \in Nat /\ Behind(b) = First(b) + len[b]
         /\ Len(chan) \in Nat /\ DOMAIN chan = 1..Len(chan)
         /\ \A k \in 1..Len(chan) : chan[k] \in Bufs
         /\ NextSent \in Nat /\ NextReceived \in Nat
         /\ \A k \in 1..Len(chan) + 1 : StartOf(k) \in Nat
         /\ StartOf(Len(chan) + 1) = NextSent
         /\ rtotal \in Nat /\ wtotal \in Nat /\ Len(file) \in Nat
  <1>j. JobFacts
    BY JobTypes DEF PInv, TypeOK
  <1>t. /\ mem \in [Bufs -> [1..Cap -> 0..SourceLen]] /\ len \in [Bufs -> 0..Cap]
        /\ chan \in Seq(Bufs) /\ rtotal \in Nat /\ wtotal \in Nat /\ file \in Seq(1..SourceLen)
        /\ (rpc = "send" => rbuf \in Bufs) /\ (wpc = "write" => wbuf \in Bufs)
    BY DEF PInv, TypeOK, WhoHolds
  <1>1. \A b \in Bufs : First(b) \in 0..SourceLen /\ len[b] \in 0..Cap /\ Behind(b) = First(b) + len[b]
    <2>1. 1 \in 1..Cap
      BY <1>j DEF JobFacts
    <2> QED
      BY <1>t, <2>1 DEF First, Behind
  <1>2. \A b \in Bufs : Behind(b) \in Nat
    BY <1>j, <1>1 DEF JobFacts
  <1>3. Len(chan) \in Nat /\ DOMAIN chan = 1..Len(chan) /\ Len(file) \in Nat
        /\ \A k \in 1..Len(chan) : chan[k] \in Bufs
    BY <1>t, LenProperties, ElementOfSeq
  <1>4. NextSent \in Nat
    BY <1>j, <1>t, <1>1 DEF NextSent, JobFacts
  <1>5. NextReceived \in Nat
    BY <1>t, <1>2 DEF NextReceived
  <1>6. \A k \in 1..Len(chan) + 1 : StartOf(k) \in Nat
    BY <1>j, <1>1, <1>3, <1>4 DEF StartOf, JobFacts
  <1>7. StartOf(Len(chan) + 1) = NextSent
    BY <1>3 DEF StartOf
  <1> QED
    BY <1>t, <1>1, <1>2, <1>3, <1>4, <1>5, <1>6, <1>7

\* A step that leaves the written, the channel, and the contents of the
\* buffers that are sent as they are.
LEMMA SameSent ==
  ASSUME PInv,
         UNCHANGED <<chan, file, wtotal, wresult, wbuf>>,
         wpc' = "write" <=> wpc = "write",
         \A b \in Range(chan) \cup {wbuf} : mem'[b] = mem[b] /\ len'[b] = len[b],
         NextSent' = NextSent,
         rpc' = "send" => Run(rbuf)' /\ Behind(rbuf)' = rtotal' + 1
  PROVE  UnderWay'
  <1>1. Len(chan) \in Nat /\ \A k \in 1..Len(chan) : chan[k] \in Range(chan)
    BY Marks DEF Range
  <1>2. \A b \in Range(chan) \cup {wbuf} :
          First(b)' = First(b) /\ Behind(b)' = Behind(b) /\ (Run(b)' <=> Run(b))
    BY DEF First, Behind, Run
  <1>3. \A k \in Nat \ {0} : StartOf(k)' = StartOf(k)
    BY <1>1, <1>2 DEF StartOf
  <1>4. NextReceived' = NextReceived
    BY <1>2 DEF NextReceived
  <1>5. UnderWay
    BY DEF PInv
  <1>6. \A k \in 1..Len(chan) + 1 : k \in Nat \ {0}
    BY <1>1
  <1>7. 1 \in Nat \ {0} /\ \A k \in 1..Len(chan) : k + 1 \in Nat \ {0}
    BY <1>1
  <1> SUFFICES ASSUME wresult = "None"
               PROVE  UnderWay'
    BY DEF UnderWay
  <1>8. wpc' = "write" => Run(wbuf)' /\ First(wbuf)' = wtotal' + 1
    BY <1>2, <1>5 DEF UnderWay
  <1>9. \A k \in 1..Len(chan) : Run(chan[k])' /\ Behind(chan[k])' = StartOf(k + 1)'
    BY <1>1, <1>2, <1>3, <1>5, <1>7 DEF UnderWay
  <1>10. \A k \in 1..Len(chan) + 1 : StartOf(k)' <= NextSent' /\ NextSent' <= StartOf(k)' + (Len(chan) + 1 - k) * Cap
    BY <1>3, <1>5, <1>6 DEF UnderWay
  <1>11. StartOf(1)' = NextReceived'
    BY <1>3, <1>4, <1>5, <1>7 DEF UnderWay
  <1>12. Len(file') = wtotal'
    BY <1>5 DEF UnderWay
  <1> QED
    BY <1>8, <1>9, <1>10, <1>11, <1>12 DEF UnderWay

LEMMA ReaderKeepsUnderWay ==
  ASSUME PInv, Reader
  PROVE  UnderWay'
  <1>j. JobFacts /\ WhoHolds /\ OneOwner /\ UnderWay
        /\ mem \in [Bufs -> [1..Cap -> 0..SourceLen]] /\ len \in [Bufs -> 0..Cap]
        /\ free \in Seq(Bufs) /\ chan \in Seq(Bufs) /\ rbuf \in Bufs \cup {None}
        /\ wbuf \in Bufs \cup {None} /\ rtotal \in Nat
    BY JobTypes DEF PInv, TypeOK
  <1>w. UNCHANGED <<file, wtotal, wresult, wbuf, wpc>>
    BY DEF Reader, RAcquire, RPop, RRead, REnd, RSend, RSendFails, RDrop, RPush, writer
  <1>1. CASE UNCHANGED <<chan, mem, len, rtotal>> /\ rpc # "send" /\ rpc' # "send"
    <2>1. NextSent' = NextSent
      BY <1>1 DEF NextSent
    <2> QED
      BY <1>1, <1>w, <2>1, SameSent
  <1>2. CASE RPop
    <2>1. UNCHANGED <<chan, mem, rtotal>> /\ rpc # "send" /\ rpc' # "send"
          /\ len' = [len EXCEPT ![rbuf'] = 0]
      BY <1>2 DEF RPop
    <2>2. NextSent' = NextSent
      BY <2>1 DEF NextSent
    <2>3. rbuf' \notin Range(chan) \cup {wbuf}
      <3>1. OneOwner' /\ chan' = chan /\ wbuf' = wbuf
        BY <1>w, <2>1, ReaderKeepsOwners
      <3>2. rbuf' # None
        BY <1>2, ReaderKeepsLocal DEF RPop, Local, WhoHolds
      <3> QED
        BY <3>1, <3>2 DEF OneOwner
    <2>4. \A b \in Range(chan) \cup {wbuf} : len'[b] = len[b]
      <3>1. wbuf = None => len'[None] = len[None]
        BY <1>j, <2>1, <2>3
      <3> QED
        BY <1>j, <2>1, <2>3
    <2> QED
      BY <1>w, <2>1, <2>2, <2>4, SameSent
  <1>3. ASSUME NEW n \in 1..Cap, RRead(n)
        PROVE  UnderWay'
    <2>1. /\ rpc = "read" /\ rpc' = "send" /\ UNCHANGED <<chan, rbuf>>
          /\ mem' = [mem EXCEPT ![rbuf] = Filled(rbuf, n)]
          /\ len' = [len EXCEPT ![rbuf] = n]
          /\ rtotal' = rtotal + n
      BY <1>3 DEF RRead
    <2>2. rbuf \in Bufs /\ rbuf \notin Range(chan) \cup {wbuf}
      BY <1>j, <2>1 DEF WhoHolds, OneOwner
    <2>3. mem'[rbuf] = Filled(rbuf, n) /\ len'[rbuf] = n
      BY <1>j, <2>1, <2>2
    <2>4. \A i \in 1..n : mem'[rbuf][i] = rtotal + i
      <3>1. \A i \in 1..n : i \in 1..Cap /\ i <= n
        BY <1>j DEF JobFacts
      <3> QED
        BY <2>3, <3>1 DEF Filled
    <2>5. 1 \in 1..n
      BY <1>j DEF JobFacts
    <2>6. First(rbuf)' = rtotal + 1
      BY <2>1, <2>4, <2>5 DEF First
    <2>7. NextSent' = NextSent
      BY <2>1, <2>6 DEF NextSent
    <2>8. Run(rbuf)'
      <3>1. \A i \in 1..n : rtotal + i = rtotal + 1 + i - 1
        BY <1>j
      <3>2. n >= 1
        BY <1>j DEF JobFacts
      <3>3. mem'[rbuf][1] = rtotal + 1
        BY <2>4, <2>5
      <3>4. \A i \in 1..len'[rbuf] : mem'[rbuf][i] = mem'[rbuf][1] + i - 1
        BY <2>3, <2>4, <3>1, <3>3
      <3> QED
        BY <2>1, <2>3, <3>2, <3>4 DEF Run
    <2>9. Behind(rbuf)' = rtotal' + 1
      <3>1. Behind(rbuf)' = rtotal + 1 + n
        BY <2>1, <2>3, <2>4, <2>5 DEF Behind
      <3> QED
        BY <1>j, <2>1, <3>1
    <2>10. \A b \in Range(chan) \cup {wbuf} : mem'[b] = mem[b] /\ len'[b] = len[b]
      BY <1>j, <2>1, <2>2
    <2> QED
      BY <1>w, <2>1, <2>7, <2>8, <2>9, <2>10, SameSent
  <1>5. CASE RSend
    <2>1. /\ rpc = "send" /\ rpc' = "lock" /\ UNCHANGED <<mem, len, rtotal>>
          /\ chan' = Append(chan, rbuf)
      BY <1>5 DEF RSend
    <2>2. rbuf \in Bufs
      BY <1>j, <2>1 DEF WhoHolds
    <2>c. Len(chan) \in Nat
      BY Marks
    <2>n. PICK n \in Nat : n = Len(chan)
      BY <2>c
    <2>3. /\ Len(chan') = n + 1
          /\ \A k \in 1..n : chan'[k] = chan[k]
          /\ chan'[n + 1] = rbuf
      BY <1>j, <2>n, <2>1, <2>2, PushLast
    <2> SUFFICES ASSUME wresult = "None"
                 PROVE  UnderWay'
      BY <1>w DEF UnderWay
    <2>4. /\ Len(file) = wtotal
          /\ Run(rbuf) /\ Behind(rbuf) = rtotal + 1
          /\ wpc = "write" => Run(wbuf) /\ First(wbuf) = wtotal + 1
          /\ StartOf(1) = NextReceived
          /\ \A k \in 1..n : Run(chan[k]) /\ Behind(chan[k]) = StartOf(k + 1)
          /\ \A k \in 1..n + 1 : StartOf(k) <= NextSent /\ NextSent <= StartOf(k) + (n + 1 - k) * Cap
      BY <1>j, <2>n, <2>1 DEF UnderWay
    <2>5. NextSent = First(rbuf) /\ NextSent' = Behind(rbuf)
      BY <2>1, <2>4 DEF NextSent
    <2>6. \A b : First(b)' = First(b) /\ Behind(b)' = Behind(b) /\ (Run(b)' <=> Run(b))
      BY <2>1 DEF First, Behind, Run
    <2>7. /\ \A k \in 1..n + 1 : StartOf(k)' = StartOf(k)
          /\ StartOf(n + 2)' = NextSent'
      <3>1. \A k \in 1..n : StartOf(k)' = StartOf(k)
        BY <2>n, <2>1, <2>3 DEF StartOf, First
      <3>2. StartOf(n + 1)' = First(rbuf)
        BY <2>1, <2>3 DEF StartOf, First
      <3>3. StartOf(n + 1) = First(rbuf)
        BY <2>n, <2>5, Marks
      <3>4. StartOf(n + 2)' = NextSent'
        BY <2>3 DEF StartOf
      <3>5. \A k \in 1..n + 1 : k \in 1..n \/ k = n + 1
        BY <2>3
      <3> QED
        BY <3>1, <3>2, <3>3, <3>4, <3>5
    <2>8. NextReceived' = NextReceived
      BY <1>w, <2>6 DEF NextReceived
    <2>9. StartOf(1)' = NextReceived'
      BY <2>3, <2>4, <2>7, <2>8
    <2>10. ASSUME NEW k \in 1..Len(chan')
           PROVE  Run(chan[k])' /\ Behind(chan[k])' = StartOf(k + 1)'
      <3>1. CASE k \in 1..n
        <4>1. k + 1 \in 1..n + 1
          BY <2>3, <3>1
        <4> QED
          BY <2>3, <2>4, <2>6, <2>7, <3>1, <4>1
      <3>2. CASE k = n + 1
        <4>1. k + 1 = n + 2
          BY <2>3, <3>2
        <4> QED
          BY <2>1, <2>3, <2>4, <2>5, <2>7, <3>2, <4>1 DEF Run, Behind
      <3> QED
        BY <2>3, <3>1, <3>2
    <2>11. ASSUME NEW k \in 1..Len(chan') + 1
           PROVE  StartOf(k)' <= NextSent' /\ NextSent' <= StartOf(k)' + (Len(chan') + 1 - k) * Cap
      <3>1. NextSent' <= NextSent + Cap /\ NextSent \in Nat /\ NextSent' \in Nat /\ Cap \in Nat
        BY <1>j, <2>2, <2>5, Marks DEF JobFacts
      <3>2. CASE k \in 1..n + 1
        <4> DEFINE a == n + 1 - k
        <4>1. a \in Nat /\ Len(chan') + 1 - k = a + 1
          BY <2>3, <3>2
        <4>2. StartOf(k) <= NextSent /\ NextSent <= StartOf(k) + a * Cap /\ StartOf(k)' = StartOf(k) /\ StartOf(k) \in Nat
          BY <2>n, <2>4, <2>7, <3>2, Marks
        <4> HIDE DEF a
        <4>3. PICK p \in Nat : a * Cap = p /\ (a + 1) * Cap = p + Cap
          BY <3>1, <4>1, OneMore
        <4>4. NextSent' <= StartOf(k) + (p + Cap)
          <5>1. NextSent <= StartOf(k) + p
            BY <4>2, <4>3
          <5> QED
            BY <3>1, <4>2, <5>1
        <4>5. StartOf(k) <= NextSent'
          <5>1. NextSent <= NextSent'
            BY <1>j, <2>2, <2>5, Marks DEF JobFacts
          <5> QED
            BY <3>1, <4>2, <5>1
        <4> QED
          BY <4>1, <4>2, <4>3, <4>4, <4>5
      <3>3. CASE k = n + 2
        <4>1. Len(chan') + 1 - k = 0 /\ 0 * Cap = 0
          BY <2>3, <3>1, <3>3
        <4>2. StartOf(k)' = NextSent'
          BY <2>7, <3>3
        <4> QED
          BY <3>1, <4>1, <4>2
      <3> QED
        BY <2>3, <3>2, <3>3
    <2>12. Len(file') = wtotal' /\ (wpc' = "write" => Run(wbuf)' /\ First(wbuf)' = wtotal' + 1)
      BY <1>w, <2>4, <2>6
    <2> QED
      BY <2>1, <2>9, <2>10, <2>11, <2>12 DEF UnderWay
  <1>6. CASE RSendFails
    <2>1. wresult' # "None"
      BY <1>6, <1>w DEF RSendFails, PInv, HowTheyEnd
    <2> QED
      BY <2>1 DEF UnderWay
  <1>7. RAcquire \/ (\E r \in {"Ok", "Err"} : REnd(r)) \/ RDrop \/ RPush
          => UNCHANGED <<chan, mem, len, rtotal>> /\ rpc # "send" /\ rpc' # "send"
    BY DEF RAcquire, REnd, RDrop, RPush, pool, writer
  <1> QED
    BY <1>1, <1>2, <1>3, <1>5, <1>6, <1>7 DEF Reader

LEMMA WriterKeepsUnderWay ==
  ASSUME PInv, Writer
  PROVE  UnderWay'
  <1>j. JobFacts /\ WhoHolds /\ OneOwner /\ UnderWay /\ HowTheyEnd /\ chan \in Seq(Bufs)
    BY JobTypes DEF PInv, TypeOK
  <1>w. UNCHANGED <<mem, len, rpc, rbuf, rtotal, rresult>>
    BY DEF Writer, WRecv, WRecvClosed, WWrite, WWriteError, WDrop, WPush, WFlush, WClose, reader
  <1>6. \A b \in Bufs : First(b)' = First(b) /\ Behind(b)' = Behind(b) /\ (Run(b)' <=> Run(b))
    BY <1>w DEF First, Behind, Run
  <1>s. /\ NextSent' = NextSent
        /\ rpc' = "send" /\ wresult = "None" => Run(rbuf)' /\ Behind(rbuf)' = rtotal' + 1
    BY <1>w, <1>j DEF NextSent, First, Behind, Run, UnderWay
  <1>1. CASE WRecv
    <2>1. /\ wpc = "recv" /\ wpc' = "write" /\ chan # <<>>
          /\ wbuf' = Head(chan) /\ chan' = Tail(chan)
          /\ UNCHANGED <<wtotal, wresult, file>>
      BY <1>1 DEF WRecv
    <2> SUFFICES ASSUME wresult = "None"
                 PROVE  UnderWay'
      BY <2>1 DEF UnderWay
    <2>c. Len(chan) \in Nat
      BY Marks
    <2>n. PICK n \in Nat : n = Len(chan)
      BY <2>c
    <2>3. /\ n \in Nat \ {0} /\ Len(chan') = n - 1
          /\ \A k \in 1..n - 1 : chan'[k] = chan[k + 1]
          /\ wbuf' = chan[1] /\ chan[1] \in Bufs
          /\ \A k \in 1..n - 1 : chan[k + 1] \in Bufs
      <3>1. Len(chan) \in Nat \ {0} /\ Head(chan) = chan[1] /\ Head(chan) \in Bufs
            /\ Len(Tail(chan)) = Len(chan) - 1
            /\ \A i \in 1..Len(chan) - 1 : Tail(chan)[i] = chan[i + 1]
        BY <1>j, <2>1, PopFirst
      <3>2. \A k \in 1..n - 1 : k + 1 \in 1..n
        BY <2>n
      <3> QED
        BY <2>n, <2>1, <3>1, <3>2, Marks
    <2>4. /\ Len(file) = wtotal
          /\ StartOf(1) = NextReceived
          /\ \A k \in 1..n : Run(chan[k]) /\ Behind(chan[k]) = StartOf(k + 1)
          /\ \A k \in 1..n + 1 : StartOf(k) <= NextSent /\ NextSent <= StartOf(k) + (n + 1 - k) * Cap
      BY <2>n, <1>j DEF UnderWay
    <2>5. \A k \in 1..n : StartOf(k)' = StartOf(k + 1)
      <3>1. \A k \in 1..n - 1 : StartOf(k)' = First(chan[k + 1])
        BY <2>3, <1>w DEF StartOf, First
      <3>2. \A k \in 1..n - 1 : StartOf(k + 1) = First(chan[k + 1])
        BY <2>n, <2>3 DEF StartOf
      <3>3. StartOf(n)' = NextSent'
        BY <2>3 DEF StartOf
      <3>4. StartOf(n + 1) = NextSent
        BY <2>n, Marks
      <3>5. \A k \in 1..n : k \in 1..n - 1 \/ k = n
        BY <2>3
      <3> QED
        BY <1>s, <3>1, <3>2, <3>3, <3>4, <3>5
    <2>6. /\ 1 \in 1..n /\ 1 + 1 = 2
          /\ StartOf(1) = First(chan[1])
      BY <2>n, <2>3 DEF StartOf
    <2>7. Run(wbuf)' /\ First(wbuf)' = wtotal' + 1
      <3>1. NextReceived = wtotal + 1
        BY <2>1 DEF NextReceived
      <3>2. Run(chan[1]) /\ First(chan[1]) = wtotal + 1
        BY <2>4, <2>6, <3>1
      <3> QED
        BY <1>w, <2>1, <2>3, <3>2 DEF Run, First
    <2>8. StartOf(1)' = NextReceived'
      <3>1. NextReceived' = Behind(chan[1])
        BY <1>w, <2>1, <2>3 DEF NextReceived, Behind
      <3>2. StartOf(1)' = StartOf(1 + 1) /\ Behind(chan[1]) = StartOf(1 + 1)
        BY <2>4, <2>5, <2>6
      <3> QED
        BY <3>1, <3>2
    <2>9. ASSUME NEW k \in 1..Len(chan')
          PROVE  Run(chan[k])' /\ Behind(chan[k])' = StartOf(k + 1)'
      <3>1. k \in 1..n - 1 /\ k + 1 \in 1..n
        BY <2>3
      <3>2. chan'[k] = chan[k + 1] /\ Run(chan[k + 1]) /\ Behind(chan[k + 1]) = StartOf(k + 1 + 1)
        BY <2>3, <2>4, <3>1
      <3>3. StartOf(k + 1)' = StartOf(k + 1 + 1)
        BY <2>5, <3>1
      <3> QED
        BY <1>w, <3>2, <3>3 DEF Run, Behind
    <2>10. ASSUME NEW k \in 1..Len(chan') + 1
           PROVE  StartOf(k)' <= NextSent' /\ NextSent' <= StartOf(k)' + (Len(chan') + 1 - k) * Cap
      <3>1. k \in 1..n /\ k + 1 \in 1..n + 1
        BY <2>3
      <3>2. Len(chan') + 1 - k = n + 1 - (k + 1)
        BY <2>3, <3>1
      <3>3. StartOf(k + 1) <= NextSent /\ NextSent <= StartOf(k + 1) + (n + 1 - (k + 1)) * Cap /\ StartOf(k)' = StartOf(k + 1)
        BY <2>4, <2>5, <3>1
      <3> QED
        BY <1>s, <3>2, <3>3
    <2>11. Len(file') = wtotal'
      BY <2>1, <2>4
    <2> QED
      BY <1>s, <2>1, <2>7, <2>8, <2>9, <2>10, <2>11 DEF UnderWay
  <1>2. CASE WWrite
    <2>1. /\ wpc = "write" /\ wpc' = "drop" /\ UNCHANGED <<chan, wresult>>
          /\ wtotal' = wtotal + len[wbuf] /\ file' = file \o AsSlice(wbuf)
      BY <1>2 DEF WWrite
    <2>2. /\ wbuf \in Bufs /\ wresult = "None"
          /\ AsSlice(wbuf) \in Seq(1..SourceLen) /\ Len(AsSlice(wbuf)) = len[wbuf]
      BY <2>1, Slice
    <2>3. UnderWay /\ Len(file) = wtotal /\ First(wbuf) = wtotal + 1
      BY <1>j, <2>1, <2>2 DEF UnderWay
    <2>4. Len(file') = wtotal'
      <3> DEFINE s == AsSlice(wbuf)
      <3>1. file \in Seq(1..SourceLen) /\ s \in Seq(1..SourceLen)
            /\ file' = file \o s /\ Len(s) = len[wbuf]
        BY <2>1, <2>2 DEF PInv, TypeOK
      <3> HIDE DEF s
      <3>2. Len(file') = Len(file) + len[wbuf]
        BY <3>1, ConcatProperties
      <3> QED
        BY <2>1, <2>3, <3>2
    <2>5. NextReceived' = NextReceived
      <3>1. NextReceived = First(wbuf) + len[wbuf]
        BY <2>1, <2>2, Marks DEF NextReceived
      <3>2. NextReceived' = wtotal + len[wbuf] + 1
        BY <2>1 DEF NextReceived
      <3>3. wtotal \in Nat /\ len[wbuf] \in Nat
        BY <1>j, <2>2, Marks DEF JobFacts
      <3> QED
        BY <2>3, <3>1, <3>2, <3>3
    <2>6. \A k \in Nat : StartOf(k)' = StartOf(k)
      BY <1>s, <1>w, <2>1 DEF StartOf, First
    <2>7. Len(chan) \in Nat /\ 1 \in Nat
      BY Marks
    <2>8. StartOf(1)' = NextReceived'
      BY <2>2, <2>3, <2>5, <2>6, <2>7 DEF UnderWay
    <2>9. \A k \in 1..Len(chan) : Run(chan[k])' /\ Behind(chan[k])' = StartOf(k + 1)'
      <3>1. \A k \in 1..Len(chan) : k + 1 \in Nat
        BY <2>7
      <3> QED
        BY <1>w, <2>1, <2>2, <2>3, <2>6, <3>1 DEF UnderWay, Run, Behind
    <2>10. \A k \in 1..Len(chan) + 1 : StartOf(k)' <= NextSent' /\ NextSent' <= StartOf(k)' + (Len(chan) + 1 - k) * Cap
      <3>1. \A k \in 1..Len(chan) + 1 : k \in Nat
        BY <2>7
      <3> QED
        BY <1>s, <2>2, <2>3, <2>6, <3>1 DEF UnderWay
    <2> QED
      BY <1>s, <2>1, <2>2, <2>4, <2>8, <2>9, <2>10 DEF UnderWay
  <1>3. CASE WRecvClosed \/ WDrop \/ WPush
    <2>1. /\ UNCHANGED <<chan, file, wtotal, wresult>> /\ wpc # "write" /\ wpc' # "write"
      BY <1>3 DEF WRecvClosed, WDrop, WPush, AfterDrop, TryLock, Dealloc, Push, pool, reader
    <2> SUFFICES ASSUME wresult = "None"
                 PROVE  UnderWay'
      BY <2>1 DEF UnderWay
    <2>2. NextReceived' = NextReceived
      BY <2>1 DEF NextReceived
    <2>6. \A k \in Nat : StartOf(k)' = StartOf(k)
      BY <1>s, <1>w, <2>1 DEF StartOf, First
    <2>7. Len(chan) \in Nat /\ 1 \in Nat
      BY Marks
    <2>8. StartOf(1)' = NextReceived' /\ Len(file') = wtotal'
      BY <1>j, <2>1, <2>2, <2>6, <2>7 DEF UnderWay
    <2>9. \A k \in 1..Len(chan) : Run(chan[k])' /\ Behind(chan[k])' = StartOf(k + 1)'
      <3>1. \A k \in 1..Len(chan) : k + 1 \in Nat
        BY <2>7
      <3> QED
        BY <1>j, <1>w, <2>1, <2>6, <3>1 DEF UnderWay, Run, Behind
    <2>10. \A k \in 1..Len(chan) + 1 : StartOf(k)' <= NextSent' /\ NextSent' <= StartOf(k)' + (Len(chan) + 1 - k) * Cap
      <3>1. \A k \in 1..Len(chan) + 1 : k \in Nat
        BY <2>7
      <3> QED
        BY <1>j, <1>s, <2>6, <3>1 DEF UnderWay
    <2> QED
      BY <1>s, <2>1, <2>8, <2>9, <2>10 DEF UnderWay
  <1>4. CASE WWriteError \/ WFlush \/ WClose
    <2>1. wresult' # "None"
      BY <1>4, <1>j DEF WWriteError, WFlush, WClose, HowTheyEnd
    <2> QED
      BY <2>1 DEF UnderWay
  <1> QED
    BY <1>1, <1>2, <1>3, <1>4 DEF Writer

-----------------------------------------------------------------------------
(* How far the reader can be ahead. *)

\* Units taken and not yet in a buffer of the channel.
Ahead == IF rpc \in {"lock", "pop", "read"} THEN 0 ELSE Cap

LEMMA InHand ==
  ASSUME PInv, wresult = "None"
  PROVE  /\ wpc = "write" => rtotal <= Len(file) + Cap + Len(chan) * Cap + Ahead
         /\ wpc # "write" => rtotal <= Len(file) + Len(chan) * Cap + Ahead
  <1>j. JobFacts
    BY JobTypes DEF PInv, TypeOK
  <1>m. /\ rtotal \in Nat /\ NextSent \in Nat /\ NextReceived \in Nat /\ wtotal \in Nat
        /\ Len(file) \in Nat /\ Len(chan) \in Nat /\ Cap \in Nat
    BY <1>j, Marks DEF JobFacts
  <1>p. PICK p \in Nat : Len(chan) * Cap = p
    BY <1>m
  <1>1. NextSent <= NextReceived + p
    <2>1. 1 \in 1..Len(chan) + 1 /\ Len(chan) + 1 - 1 = Len(chan)
      BY <1>m
    <2> QED
      BY <1>p, <2>1 DEF PInv, UnderWay
  <1>2. rtotal + 1 <= NextSent + Ahead
    <2>1. CASE rpc = "send"
      <3>1. rbuf \in Bufs /\ Behind(rbuf) = rtotal + 1
        BY <2>1 DEF PInv, UnderWay, WhoHolds, TypeOK
      <3>2. /\ Behind(rbuf) = First(rbuf) + len[rbuf] /\ len[rbuf] \in 0..Cap
            /\ NextSent = First(rbuf) /\ Ahead = Cap
        BY <2>1, <3>1, Marks DEF NextSent, Ahead
      <3>3. PICK l \in 0..Cap : len[rbuf] = l
        BY <3>2
      <3>4. rtotal + 1 = NextSent + l
        BY <3>1, <3>2, <3>3
      <3>5. NextSent + l <= NextSent + Cap
        BY <1>m
      <3> QED
        BY <3>2, <3>4, <3>5
    <2>2. CASE rpc # "send"
      BY <1>m, <2>2 DEF NextSent, Ahead
    <2> QED
      BY <2>1, <2>2
  <1>3. Ahead \in Nat
    BY <1>m DEF Ahead
  <1>4. Len(file) = wtotal
    BY DEF PInv, UnderWay
  <1>5. CASE wpc = "write"
    <2>1. wbuf \in Bufs /\ First(wbuf) = wtotal + 1
      BY <1>5 DEF PInv, UnderWay, WhoHolds, TypeOK
    <2>2. NextReceived = First(wbuf) + len[wbuf] /\ len[wbuf] \in 0..Cap
      BY <1>5, <2>1, Marks DEF NextReceived
    <2>3. PICK l \in 0..Cap : len[wbuf] = l
      BY <2>2
    <2>4. NextReceived = Len(file) + 1 + l
      BY <1>4, <2>1, <2>2, <2>3
    <2>5. rtotal <= Len(file) + Cap + p + Ahead
      <3>1. rtotal + 1 <= NextReceived + p + Ahead
        BY <1>m, <1>1, <1>2, <1>3
      <3> QED
        BY <1>m, <1>3, <2>4, <3>1
    <2> QED
      BY <1>5, <1>p, <2>5
  <1>6. CASE wpc # "write"
    <2>1. NextReceived = wtotal + 1
      BY <1>6 DEF NextReceived
    <2>2. rtotal <= Len(file) + p + Ahead
      BY <1>m, <1>1, <1>2, <1>3, <1>4, <2>1
    <2> QED
      BY <1>6, <1>p, <2>2
  <1> QED
    BY <1>5, <1>6

\* What can still be sent: to a channel that is open until it is full, to one
\* that is closed no more than it ever held.
Sent == IF rx_open THEN Len(chan) ELSE Depth

LEMMA SentIsNatural ==
  ASSUME PInv
  PROVE  /\ Sent \in Nat /\ Ahead \in Nat /\ rtotal \in Nat /\ Len(file) \in Nat
         /\ Cap \in Nat \ {0} /\ Depth \in Nat /\ Len(chan) \in Nat
         /\ Sent <= Depth
  <1>1. JobFacts /\ rx_open \in BOOLEAN /\ Len(chan) <= Depth
    BY JobTypes DEF PInv, TypeOK
  <1> QED
    BY <1>1, Marks DEF Sent, Ahead, JobFacts

LEMMA ReaderKeepsOverrun ==
  ASSUME PInv, Reader
  PROVE  Overrun'
  <1>j. Overrun /\ HowTheyEnd /\ chan \in Seq(Bufs) /\ rbuf \in Bufs \cup {None} /\ WhoHolds
    BY DEF PInv, TypeOK
  <1>w. UNCHANGED <<file, wresult, rx_open>>
    BY DEF Reader, RAcquire, RPop, RRead, REnd, RSend, RSendFails, RDrop, RPush, writer
  <1>n. /\ Sent \in Nat /\ Ahead \in Nat /\ rtotal \in Nat /\ Len(file) \in Nat
        /\ Cap \in Nat /\ Depth \in Nat /\ Len(chan) \in Nat
    BY SentIsNatural
  <1> SUFFICES ASSUME wresult = "Err"
               PROVE  rtotal' <= Len(file) + Cap + Sent' * Cap + Ahead'
    BY <1>w DEF Overrun, Sent, Ahead
  <1>o. rtotal <= Len(file) + Cap + Sent * Cap + Ahead
    BY <1>j DEF Overrun, Sent, Ahead
  <1>p. PICK p \in Nat : Sent * Cap = p
    BY <1>n
  <1>1. CASE rtotal' = rtotal /\ chan' = chan /\ (Ahead' = Ahead \/ (Ahead = 0 /\ Ahead' = Cap))
    <2>1. Sent' = Sent
      BY <1>1, <1>w DEF Sent
    <2>2. rtotal <= Len(file) + Cap + p + Ahead'
      BY <1>n, <1>o, <1>p, <1>1
    <2> QED
      BY <1>1, <1>p, <2>1, <2>2
  <1>2. ASSUME NEW n \in 1..Cap, RRead(n)
        PROVE  rtotal' <= Len(file) + Cap + Sent' * Cap + Ahead'
    <2>1. rtotal' = rtotal + n /\ Ahead = 0 /\ Ahead' = Cap /\ Sent' = Sent
      BY <1>2, <1>w DEF RRead, Ahead, Sent
    <2>2. rtotal + n <= Len(file) + Cap + p + Cap
      BY <1>n, <1>o, <1>p, <2>1
    <2> QED
      BY <1>p, <2>1, <2>2
  <1>3. CASE RSend
    <2>1. /\ rx_open /\ rtotal' = rtotal /\ rpc = "send" /\ rpc' = "lock"
          /\ chan' = Append(chan, rbuf)
      BY <1>3 DEF RSend
    <2>2. Len(chan') = Len(chan) + 1
      BY <1>j, <2>1, PushLast DEF WhoHolds
    <2>3. Ahead = Cap /\ Ahead' = 0 /\ Sent = Len(chan) /\ Sent' = Sent + 1
      BY <1>w, <2>1, <2>2 DEF Ahead, Sent
    <2>4. (Sent + 1) * Cap = p + Cap
      BY <1>n, <1>p, OneMore
    <2>5. rtotal <= Len(file) + Cap + (p + Cap) + 0
      BY <1>n, <1>o, <1>p, <2>3
    <2> QED
      BY <2>1, <2>3, <2>4, <2>5
  <1>4. RAcquire \/ RPop \/ (\E r \in {"Ok", "Err"} : REnd(r)) \/ RSendFails \/ RDrop \/ RPush
          => rtotal' = rtotal /\ chan' = chan /\ (Ahead' = Ahead \/ (Ahead = 0 /\ Ahead' = Cap))
    BY DEF RAcquire, RPop, REnd, RSendFails, RDrop, RPush, Ahead
  <1> QED
    BY <1>1, <1>2, <1>3, <1>4 DEF Reader

LEMMA WriterKeepsOverrun ==
  ASSUME PInv, Writer
  PROVE  Overrun'
  <1>j. Overrun /\ HowTheyEnd /\ chan \in Seq(Bufs) /\ WhoHolds
    BY DEF PInv, TypeOK
  <1>w. UNCHANGED <<rtotal, rpc>>
    BY DEF Writer, WRecv, WRecvClosed, WWrite, WWriteError, WDrop, WPush, WFlush, WClose, reader
  <1>n. /\ Sent \in Nat /\ Ahead \in Nat /\ rtotal \in Nat /\ Len(file) \in Nat
        /\ Cap \in Nat /\ Depth \in Nat /\ Len(chan) \in Nat /\ Sent <= Depth
    BY SentIsNatural
  <1>a. Ahead' = Ahead
    BY <1>w DEF Ahead
  <1> SUFFICES ASSUME wresult' = "Err"
               PROVE  rtotal <= Len(file') + Cap + Sent' * Cap + Ahead
    BY <1>w, <1>a DEF Overrun, Sent, Ahead
  <1>p. PICK p \in Nat : Sent * Cap = p
    BY <1>n
  <1>o. wresult = "Err" => rtotal <= Len(file) + Cap + p + Ahead
    BY <1>j, <1>p DEF Overrun, Sent, Ahead
  <1>1. CASE WRecvClosed \/ WWrite \/ WRecv
    BY <1>1, <1>j DEF WRecvClosed, WWrite, WRecv, HowTheyEnd
  <1>2. CASE WDrop \/ WPush
    <2>1. UNCHANGED <<chan, rx_open, file, wresult>>
      BY <1>2 DEF WDrop, WPush, pool, reader
    <2>2. Sent' = Sent
      BY <2>1 DEF Sent
    <2> QED
      BY <1>o, <1>p, <2>1, <2>2
  <1>3. CASE WWriteError
    <2>1. wpc = "write" /\ wresult = "None" /\ rx_open /\ UNCHANGED <<chan, rx_open>>
      BY <1>3, <1>j DEF WWriteError, HowTheyEnd
    <2>2. Sent = Len(chan) /\ Sent' = Sent
      BY <2>1 DEF Sent
    <2>3. rtotal <= Len(file) + Cap + p + Ahead
      BY <1>p, <2>1, <2>2, InHand
    <2>4. Len(file') >= Len(file) /\ Len(file') \in Nat
      <3>1. wbuf \in Bufs /\ len[wbuf] \in 1..Cap
        BY <2>1, Slice
      <3>2. /\ Room \in Nat /\ Room \in 0..len[wbuf]
            /\ file' = file \o SubSeq(AsSlice(wbuf), 1, Room)
        <4>1. len[wbuf] > Room /\ file' = file \o SubSeq(AsSlice(wbuf), 1, Room)
          BY <1>3 DEF WWriteError
        <4>2. params.capacity \in Nat /\ Len(file) <= params.capacity
          BY JobTypes DEF PInv, TypeOK, JobFacts
        <4>3. Room = params.capacity - Len(file)
          BY DEF Room
        <4>4. Room \in Nat
          BY <1>n, <4>2, <4>3
        <4>5. len[wbuf] \in Nat
          BY <1>n, <3>1
        <4> QED
          BY <4>1, <4>4, <4>5
      <3>3. Len(file') = Len(file) + Room
        BY <2>1, <3>2, Written
      <3> QED
        BY <1>n, <3>2, <3>3
    <2>5. rtotal <= Len(file') + Cap + p + Ahead
      BY <1>n, <2>3, <2>4
    <2> QED
      BY <1>p, <2>2, <2>5
  <1>4. CASE WFlush
    <2>1. /\ wpc = "flush" /\ wresult = "None" /\ rx_open
          /\ UNCHANGED <<chan, rx_open, file>>
      BY <1>4, <1>j DEF WFlush, HowTheyEnd
    <2>2. Sent = Len(chan) /\ Sent' = Sent
      BY <2>1 DEF Sent
    <2>3. rtotal <= Len(file) + p + Ahead
      BY <1>p, <2>1, <2>2, InHand
    <2>4. rtotal <= Len(file) + Cap + p + Ahead
      BY <1>n, <2>3
    <2> QED
      BY <1>p, <2>1, <2>2, <2>4
  <1>5. CASE WClose
    <2>1. wresult = "Err" /\ rx_open' = FALSE /\ UNCHANGED file
      BY <1>5 DEF WClose
    <2>2. Sent' = Depth
      BY <2>1 DEF Sent
    <2>3. PICK q \in Nat : Depth * Cap = q
      BY <1>n
    <2>4. p <= q
      BY <1>n, <1>p, <2>3, AtMost
    <2>5. rtotal <= Len(file) + Cap + q + Ahead
      BY <1>n, <1>o, <2>1, <2>4
    <2> QED
      BY <2>1, <2>2, <2>3, <2>5
  <1> QED
    BY <1>1, <1>2, <1>3, <1>4, <1>5 DEF Writer

-----------------------------------------------------------------------------
(* The invariant. *)

LEMMA FirstBufsExist ==
  /\ FirstBufs \in Seq(Bufs) /\ Len(FirstBufs) = Initial
  /\ IsInjective(FirstBufs)
  <1>1. /\ IsFiniteSet(Bufs) /\ Cardinality(Bufs) \in Nat
        /\ Initial \in Nat /\ Initial < Cardinality(Bufs)
    BY PipelineAssumption, FS_CardinalityType
  <1>2. PICK f \in Bijection(1..Cardinality(Bufs), Bufs) : TRUE
    BY <1>1, FS_CardinalityType DEF ExistsBijection
  <1>3. f \in [1..Cardinality(Bufs) -> Bufs] /\ IsInjective(f)
    BY DEF Bijection, Injection
  <1>4. \A i \in 1..Initial : i \in 1..Cardinality(Bufs)
    BY <1>1
  <1> DEFINE g == [i \in 1..Initial |-> f[i]]
  <1>5. g \in [1..Initial -> Bufs] /\ IsInjective(g)
    BY <1>3, <1>4 DEF IsInjective
  <1>6. FirstBufs \in [1..Initial -> Bufs] /\ IsInjective(FirstBufs)
    BY <1>5 DEF FirstBufs
  <1> QED
    BY <1>1, <1>6

LEMMA InitPInv == Init => PInv
  <1> SUFFICES ASSUME Init
               PROVE  PInv
    OBVIOUS
  <1>j. JobFacts
    BY JobTypes DEF Init
  <1>f. /\ free \in Seq(Bufs) /\ Len(free) = Initial /\ IsInjective(free)
        /\ live = Range(free)
    BY FirstBufsExist DEF Init
  <1>c. chan = <<>> /\ Len(chan) = 0 /\ Range(chan) = {} /\ IsInjective(chan)
    BY DEF Init, Range, IsInjective
  <1>1. TypeOK
    <2>1. live \subseteq Bufs
      BY <1>f, InRange
    <2>2. mem \in [Bufs -> [1..Cap -> 0..SourceLen]] /\ len \in [Bufs -> 0..Cap]
      BY <1>j DEF Init, JobFacts
    <2> QED
      BY <1>j, <1>f, <1>c, <2>1, <2>2 DEF Init, TypeOK, Results, JobFacts
  <1>2. rtotal <= SourceLen /\ Len(file) <= params.capacity
    BY <1>j DEF Init, JobFacts
  <1>3. WhoHolds /\ HowTheyEnd
    BY DEF Init, WhoHolds, HowTheyEnd
  <1>4. OneOwner
    <2>1. Range(free) \subseteq Bufs /\ None \notin Bufs
      BY <1>f, <1>j, InRange DEF JobFacts
    <2> QED
      BY <1>f, <1>c, <2>1 DEF Init, OneOwner, Places
  <1>5. MemoryIsBounded
    BY <1>f, <1>j, DistinctCount DEF MemoryIsBounded, JobFacts
  <1>6. UnderWay
    <2>1. NextSent = 1 /\ NextReceived = 1 /\ StartOf(1) = 1
      BY <1>c DEF Init, NextSent, NextReceived, StartOf
    <2>2. ASSUME NEW k \in 1..Len(chan) + 1
          PROVE  StartOf(k) <= NextSent /\ NextSent <= StartOf(k) + (Len(chan) + 1 - k) * Cap
      <3>1. k = 1 /\ (Len(chan) + 1 - k) = 0 /\ 0 * Cap = 0
        BY <1>c, <1>j DEF JobFacts
      <3> QED
        BY <2>1, <3>1
    <2>3. 1..Len(chan) = {}
      BY <1>c
    <2> QED
      BY <2>1, <2>2, <2>3 DEF Init, UnderWay
  <1>7. Overrun
    BY DEF Init, Overrun
  <1> QED
    BY <1>1, <1>2, <1>3, <1>4, <1>5, <1>6, <1>7 DEF PInv

LEMMA IdleKeepsPInv ==
  ASSUME PInv, UNCHANGED vars
  PROVE  PInv'
  <1> USE DEF PInv, vars, pool, reader, writer
  <1>1. TypeOK' /\ rtotal' <= SourceLen /\ Len(file') <= params'.capacity
    BY DEF TypeOK
  <1>2. WhoHolds' /\ HowTheyEnd' /\ MemoryIsBounded'
    BY DEF WhoHolds, HowTheyEnd, MemoryIsBounded
  <1>3. OneOwner'
    BY DEF OneOwner, Places
  <1>4. UnderWay'
    <2>1. NextSent' = NextSent
      BY DEF NextSent, First
    <2>2. rpc = "send" /\ wresult = "None" => Run(rbuf)' /\ Behind(rbuf)' = rtotal' + 1
      BY DEF UnderWay, Run, Behind
    <2>3. CASE wresult = "None"
      <3>1. \A b \in Range(chan) \cup {wbuf} : mem'[b] = mem[b] /\ len'[b] = len[b]
        OBVIOUS
      <3> HIDE DEF PInv
      <3> QED
        BY <2>1, <2>2, <2>3, <3>1, SameSent
    <2>4. CASE wresult # "None"
      BY <2>4 DEF UnderWay
    <2> QED
      BY <2>3, <2>4
  <1>5. Overrun'
    BY DEF Overrun
  <1> QED
    BY <1>1, <1>2, <1>3, <1>4, <1>5

LEMMA NextPInv == PInv /\ [Next]_vars => PInv'
  <1> SUFFICES ASSUME PInv, [Next]_vars
               PROVE  PInv'
    OBVIOUS
  <1>1. CASE Reader
    BY <1>1, ReaderKeepsLocal, ReaderKeepsOwners, ReaderKeepsUnderWay, ReaderKeepsOverrun,
       StepKeepsMemory DEF Next, Local, PInv
  <1>2. CASE Writer
    BY <1>2, WriterKeepsLocal, WriterKeepsOwners, WriterKeepsUnderWay, WriterKeepsOverrun,
       StepKeepsMemory DEF Next, Local, PInv
  <1>3. CASE UNCHANGED vars
    BY <1>3, IdleKeepsPInv
  <1> QED
    BY <1>1, <1>2, <1>3 DEF Next, Idle

\* The invariant of the two pumps, for every source, sink, pool and channel.
THEOREM PipelineInvariant == Spec => []PInv
  BY InitPInv, NextPInv, PTL DEF Spec

\* Every variable keeps its type.
THEOREM PipelineTypeOK == Spec => []TypeOK
  BY PipelineInvariant, PTL DEF PInv

\* No unbounded memory growth, however fast the source and slow the sink.
THEOREM PipelineMemoryIsBounded == Spec => []MemoryIsBounded
  BY PipelineInvariant, PTL DEF PInv

\* No allocation is used after it was freed, lost, or in two hands.
THEOREM BuffersAreAccountedFor == Spec => []BuffersAddUp
  <1>1. PInv => BuffersAddUp
    <2> SUFFICES ASSUME PInv
                 PROVE  BuffersAddUp
      OBVIOUS
    <2> DEFINE R == {rbuf} \ {None}
               W == {wbuf} \ {None}
               F == Range(free)
               C == Range(chan)
    <2>1. /\ free \in Seq(Bufs) /\ chan \in Seq(Bufs) /\ None \notin Bufs
          /\ IsInjective(free) /\ IsInjective(chan)
      BY JobTypes DEF PInv, TypeOK, OneOwner, JobFacts
    <2>2. /\ IsFiniteSet(F) /\ Cardinality(F) = Len(free)
          /\ IsFiniteSet(C) /\ Cardinality(C) = Len(chan)
      BY <2>1, DistinctCount
    <2>3. F \cap C = {} /\ (F \cup C) \cap R = {} /\ (F \cup C \cup R) \cap W = {}
      BY DEF PInv, OneOwner
    <2>4. live = F \cup C \cup R \cup W
      BY DEF PInv, OneOwner, Places
    <2>5. IsFiniteSet(R) /\ IsFiniteSet(W) /\ Cardinality({}) = 0
      BY FS_EmptySet, FS_Singleton, FS_Difference
    <2> HIDE DEF R, W, F, C
    <2>6. IsFiniteSet(F \cup C) /\ Cardinality(F \cup C) = Cardinality(F) + Cardinality(C) - Cardinality(F \cap C)
      BY <2>2, FS_Union
    <2>7. IsFiniteSet(F \cup C \cup R)
          /\ Cardinality(F \cup C \cup R) = Cardinality(F \cup C) + Cardinality(R) - Cardinality((F \cup C) \cap R)
      BY <2>5, <2>6, FS_Union
    <2>8. Cardinality(F \cup C \cup R \cup W)
            = Cardinality(F \cup C \cup R) + Cardinality(W) - Cardinality((F \cup C \cup R) \cap W)
      BY <2>5, <2>7, FS_Union
    <2>9. Cardinality(F) \in Nat /\ Cardinality(C) \in Nat /\ Cardinality(R) \in Nat /\ Cardinality(W) \in Nat
      BY <2>2, <2>5, FS_CardinalityType
    <2>10. Cardinality(live) = Len(free) + Len(chan) + Cardinality(R) + Cardinality(W)
      <3>1. /\ Cardinality(F \cap C) = 0 /\ Cardinality((F \cup C) \cap R) = 0
            /\ Cardinality((F \cup C \cup R) \cap W) = 0
        BY <2>3, <2>5
      <3>2. Cardinality(F \cup C) = Cardinality(F) + Cardinality(C)
        BY <2>6, <2>9, <3>1
      <3>3. Cardinality(F \cup C \cup R) = Cardinality(F) + Cardinality(C) + Cardinality(R)
        BY <2>7, <2>9, <3>1, <3>2
      <3>4. Cardinality(live) = Cardinality(F) + Cardinality(C) + Cardinality(R) + Cardinality(W)
        BY <2>4, <2>8, <2>9, <3>1, <3>3
      <3> QED
        BY <2>2, <3>4
    <2>11. Places = live
      BY DEF PInv, OneOwner
    <2> QED
      BY <2>10, <2>11 DEF BuffersAddUp, R, W
  <1> QED
    BY <1>1, PipelineInvariant, PTL

-----------------------------------------------------------------------------
(* The pumps implement the pipe. *)

LEMMA StartsAsPipe == Init => Abstract!Init
  BY DEF Init, Abstract!Init

LEMMA ReaderAsPipe ==
  ASSUME PInv, Reader
  PROVE  [Abstract!Next]_Abstract!pipe
  <1> DEFINE Window == (Depth + 2) * Cap
  <1>w. UNCHANGED <<file, wtotal, wresult>>
    BY DEF Reader, RAcquire, RPop, RRead, REnd, RSend, RSendFails, RDrop, RPush, writer
  <1>n. /\ Sent \in Nat /\ Ahead \in Nat /\ rtotal \in Nat /\ Len(file) \in Nat
        /\ Cap \in Nat \ {0} /\ Depth \in Nat /\ Len(chan) \in Nat /\ Sent <= Depth
        /\ wresult \in Results
    BY SentIsNatural DEF PInv, TypeOK
  <1>1. ASSUME NEW n \in 1..Cap, RRead(n)
        PROVE  Abstract!Next
    <2>1. rpc = "read" /\ rtotal + n <= SourceLen /\ rtotal' = rtotal + n /\ rresult' = rresult
      BY <1>1 DEF RRead
    <2>2. rresult = "None" /\ wresult # "Ok"
      BY <2>1 DEF PInv, HowTheyEnd
    <2>3. Ahead = 0
      BY <2>1 DEF Ahead
    <2>q. PICK q \in Nat : Depth * Cap = q
      BY <1>n
    <2>p. PICK p \in Nat : Sent * Cap = p
      BY <1>n
    <2>4. p <= q
      BY <1>n, <2>p, <2>q, AtMost
    <2>5. rtotal <= Len(file) + Cap + q
      <3>1. CASE wresult = "None"
        <4>1. rx_open
          BY <3>1 DEF PInv, HowTheyEnd
        <4>2. Sent = Len(chan)
          BY <4>1 DEF Sent
        <4>3. \/ rtotal <= Len(file) + Cap + p + 0
              \/ rtotal <= Len(file) + p + 0
          BY <2>3, <2>p, <3>1, <4>2, InHand
        <4> QED
          BY <1>n, <2>4, <4>3
      <3>2. CASE wresult = "Err"
        <4>1. rtotal <= Len(file) + Cap + p + 0
          BY <2>1, <2>p, <3>2 DEF PInv, Overrun, Sent
        <4> QED
          BY <1>n, <2>4, <4>1
      <3> QED
        BY <1>n, <2>2, <3>1, <3>2 DEF Results
    <2>6. Window = q + Cap + Cap
      <3>1. (Depth + 1) * Cap = q + Cap /\ (Depth + 1 + 1) * Cap = (Depth + 1) * Cap + Cap
            /\ Depth + 1 + 1 = Depth + 2
        BY <1>n, <2>q, OneMore
      <3> QED
        BY <3>1
    <2>7. rtotal + n <= Len(file) + Window /\ n \in 1..Window
      BY <1>n, <2>5, <2>6
    <2>8. Abstract!Take(n)
      BY <1>w, <2>1, <2>2, <2>7 DEF Abstract!Take
    <2> QED
      BY <2>7, <2>8 DEF Abstract!Next
  <1>2. ASSUME NEW r \in {"Ok", "Err"}, REnd(r)
        PROVE  Abstract!Next
    <2>1. rresult = "None" /\ rresult' = r /\ rtotal' = rtotal /\ (r = "Ok" => rtotal = SourceLen)
      BY <1>2 DEF REnd, PInv, HowTheyEnd
    <2>2. Abstract!EndIn(r)
      BY <1>w, <2>1 DEF Abstract!EndIn
    <2> QED
      BY <2>2 DEF Abstract!Next
  <1>3. CASE RSendFails
    <2>1. rresult = "None" /\ rresult' = "Ok" /\ rtotal' = rtotal /\ wresult = "Err"
      BY <1>3, <1>n DEF RSendFails, PInv, HowTheyEnd, Results
    <2>2. Abstract!EndIn("Ok")
      BY <1>w, <2>1 DEF Abstract!EndIn
    <2> QED
      BY <2>2 DEF Abstract!Next
  <1>4. CASE RAcquire \/ RPop \/ RSend \/ RDrop \/ RPush
    BY <1>4, <1>w DEF RAcquire, RPop, RSend, RDrop, RPush, Abstract!pipe
  <1> QED
    BY <1>1, <1>2, <1>3, <1>4 DEF Reader

\* Nothing is written that was not taken.
LEMMA WrittenWasTaken ==
  ASSUME PInv, wresult = "None"
  PROVE  /\ wpc = "write" => Len(file) + len[wbuf] <= rtotal
         /\ wpc # "write" => Len(file) <= rtotal
         /\ wpc # "write" /\ rpc = "returned" /\ chan = <<>> => Len(file) = rtotal
  <1>j. JobFacts
    BY JobTypes DEF PInv, TypeOK
  <1>m. /\ rtotal \in Nat /\ NextSent \in Nat /\ NextReceived \in Nat /\ wtotal \in Nat
        /\ Len(file) \in Nat /\ Len(chan) \in Nat /\ Cap \in Nat
    BY <1>j, Marks DEF JobFacts
  <1>1. NextReceived <= NextSent
    <2>1. 1 \in 1..Len(chan) + 1
      BY <1>m
    <2> QED
      BY <2>1 DEF PInv, UnderWay
  <1>2. NextSent <= rtotal + 1
    <2>1. CASE rpc = "send"
      <3>1. rbuf \in Bufs /\ Behind(rbuf) = rtotal + 1
        BY <2>1 DEF PInv, UnderWay, WhoHolds, TypeOK
      <3>2. Behind(rbuf) = First(rbuf) + len[rbuf] /\ len[rbuf] \in 0..Cap /\ NextSent = First(rbuf)
        BY <2>1, <3>1, Marks DEF NextSent
      <3>3. PICK l \in 0..Cap : len[rbuf] = l
        BY <3>2
      <3>4. rtotal + 1 = NextSent + l
        BY <3>1, <3>2, <3>3
      <3> QED
        BY <1>m, <3>4
    <2>2. CASE rpc # "send"
      BY <1>m, <2>2 DEF NextSent
    <2> QED
      BY <2>1, <2>2
  <1>3. Len(file) = wtotal
    BY DEF PInv, UnderWay
  <1>4. CASE wpc = "write"
    <2>1. wbuf \in Bufs /\ First(wbuf) = wtotal + 1
      BY <1>4 DEF PInv, UnderWay, WhoHolds, TypeOK
    <2>2. NextReceived = First(wbuf) + len[wbuf] /\ len[wbuf] \in 0..Cap
      BY <1>4, <2>1, Marks DEF NextReceived
    <2>3. PICK l \in 0..Cap : len[wbuf] = l
      BY <2>2
    <2>4. NextReceived = Len(file) + 1 + l
      BY <1>3, <2>1, <2>2, <2>3
    <2>5. Len(file) + l <= rtotal
      BY <1>m, <1>1, <1>2, <2>4
    <2> QED
      BY <1>4, <2>3, <2>5
  <1>5. CASE wpc # "write"
    <2>1. NextReceived = Len(file) + 1
      BY <1>3, <1>5 DEF NextReceived
    <2>2. Len(file) <= rtotal
      BY <1>m, <1>1, <1>2, <2>1
    <2>3. ASSUME rpc = "returned", chan = <<>>
          PROVE  Len(file) = rtotal
      <3>1. NextSent = rtotal + 1 /\ StartOf(1) = NextSent
        BY <2>3 DEF NextSent, StartOf
      <3>2. NextReceived = NextSent
        BY <3>1 DEF PInv, UnderWay
      <3> QED
        BY <1>m, <2>1, <3>1, <3>2
    <2> QED
      BY <1>5, <2>2, <2>3
  <1> QED
    BY <1>4, <1>5

LEMMA WriterAsPipe ==
  ASSUME PInv, Writer
  PROVE  [Abstract!Next]_Abstract!pipe
  <1> DEFINE Window == (Depth + 2) * Cap
  <1>w. UNCHANGED <<rtotal, rresult>>
    BY DEF Writer, WRecv, WRecvClosed, WWrite, WWriteError, WDrop, WPush, WFlush, WClose, reader
  <1>n. /\ Len(file) \in Nat /\ Cap \in Nat \ {0} /\ Depth \in Nat
    BY SentIsNatural DEF PInv, TypeOK
  <1>c. \A n \in 0..Cap : n \in 0..Window /\ (n # 0 => n \in 1..Window)
    <2>1. (Depth + 1) * Cap \in Nat /\ (Depth + 1 + 1) * Cap = (Depth + 1) * Cap + Cap
          /\ Depth + 1 + 1 = Depth + 2
      BY <1>n, OneMore
    <2>2. PICK q \in Nat : (Depth + 1) * Cap = q
      BY <2>1
    <2>3. Window = q + Cap
      BY <2>1, <2>2
    <2> QED
      BY <1>n, <2>3
  <1>1. CASE WWrite
    <2>1. /\ wpc = "write" /\ wtotal' = wtotal + len[wbuf] /\ wresult' = wresult
          /\ file' = file \o AsSlice(wbuf)
      BY <1>1 DEF WWrite
    <2>2. /\ wresult = "None" /\ len[wbuf] \in 1..Cap
          /\ AsSlice(wbuf) \in Seq(1..SourceLen) /\ Len(AsSlice(wbuf)) = len[wbuf]
      BY <2>1, Slice
    <2>3. file' = file \o [i \in 1..len[wbuf] |-> Len(file) + i]
      <3>1. SubSeq(AsSlice(wbuf), 1, len[wbuf]) = AsSlice(wbuf)
        BY <2>2, SubSeqFull
      <3>2. len[wbuf] \in 0..len[wbuf]
        BY <1>n, <2>2
      <3>3. file' = file \o SubSeq(AsSlice(wbuf), 1, len[wbuf])
        BY <2>1, <3>1
      <3> QED
        BY <2>1, <3>2, <3>3, Written
    <2>4. Len(file) + len[wbuf] <= rtotal
      BY <2>1, <2>2, WrittenWasTaken
    <2>5. Abstract!Deliver(len[wbuf])
      BY <1>w, <2>1, <2>2, <2>3, <2>4 DEF Abstract!Deliver, Abstract!Following
    <2>6. len[wbuf] \in 1..Window
      BY <1>c, <1>n, <2>2
    <2> QED
      BY <2>5, <2>6 DEF Abstract!Next
  <1>2. CASE WWriteError
    <2>1. /\ wpc = "write" /\ wtotal' = wtotal /\ wresult' = "Err" /\ len[wbuf] > Room
          /\ file' = file \o SubSeq(AsSlice(wbuf), 1, Room)
      BY <1>2 DEF WWriteError
    <2>2. wresult = "None" /\ len[wbuf] \in 1..Cap
      BY <2>1, Slice
    <2>3. Room \in 0..len[wbuf] /\ Room \in 0..Cap
      <3>1. params.capacity \in Nat /\ Len(file) <= params.capacity
        BY JobTypes DEF PInv, TypeOK, JobFacts
      <3>2. Room = params.capacity - Len(file)
        BY DEF Room
      <3>3. Room \in Nat /\ len[wbuf] \in Nat
        BY <1>n, <2>2, <3>1, <3>2
      <3> QED
        BY <1>n, <2>1, <2>2, <3>3
    <2>4. file' = file \o [i \in 1..Room |-> Len(file) + i]
      BY <2>1, <2>3, Written
    <2>5. Len(file) + Room <= rtotal
      <3>1. Len(file) + len[wbuf] <= rtotal /\ rtotal \in Nat
        BY <2>1, <2>2, WrittenWasTaken DEF PInv, TypeOK
      <3> QED
        BY <1>n, <2>2, <2>3, <3>1
    <2>6. Abstract!Fail(Room)
      BY <1>w, <2>1, <2>2, <2>4, <2>5 DEF Abstract!Fail, Abstract!Following
    <2>7. Room \in 0..Window
      BY <1>c, <2>3
    <2> QED
      BY <2>6, <2>7 DEF Abstract!Next
  <1>3. CASE WFlush
    <2>1. /\ wpc = "flush" /\ wresult' = IF params.flushes THEN "Ok" ELSE "Err"
          /\ UNCHANGED <<file, wtotal>>
      BY <1>3 DEF WFlush
    <2>2. wresult = "None" /\ rpc = "returned" /\ chan = <<>> /\ rresult # "None"
      BY <2>1 DEF PInv, HowTheyEnd
    <2>3. Len(file) = rtotal
      BY <2>1, <2>2, WrittenWasTaken
    <2>4. CASE params.flushes
      <3>1. Abstract!EndOut
        BY <1>w, <2>1, <2>2, <2>3, <2>4 DEF Abstract!EndOut
      <3> QED
        BY <3>1 DEF Abstract!Next
    <2>5. CASE ~params.flushes
      <3>1. file \o [i \in 1..0 |-> Len(file) + i] = file
        <4>1. file \in Seq(1..SourceLen)
          BY DEF PInv, TypeOK
        <4>2. [i \in 1..0 |-> Len(file) + i] = <<>>
          OBVIOUS
        <4> QED
          BY <4>1, <4>2, ConcatEmptySeq
      <3>2. Len(file) + 0 <= rtotal
        BY <1>n, <2>3
      <3>3. Abstract!Fail(0)
        BY <1>w, <2>1, <2>2, <2>5, <3>1, <3>2 DEF Abstract!Fail, Abstract!Following
      <3>4. 0 \in 0..Window
        BY <1>c, <1>n
      <3> QED
        BY <3>3, <3>4 DEF Abstract!Next
    <2> QED
      BY <2>4, <2>5
  <1>4. CASE WRecv \/ WRecvClosed \/ WDrop \/ WPush \/ WClose
    BY <1>4, <1>w DEF WRecv, WRecvClosed, WDrop, WPush, WClose, Abstract!pipe
  <1> QED
    BY <1>1, <1>2, <1>3, <1>4 DEF Writer

\* Through any pace of the two pumps, any short read and any error, what is
\* written is the source in order, and an Ok of the writer means all of it
\* that the reader sent.
THEOREM PipelineImplementsPipe == Spec => ImplementsPipe
  <1>1. PInv /\ [Next]_vars => [Abstract!Next]_Abstract!pipe
    <2>1. PInv /\ (Idle \/ UNCHANGED vars) => UNCHANGED Abstract!pipe
      BY DEF Idle, vars, reader, writer, Abstract!pipe
    <2> QED
      BY <2>1, ReaderAsPipe, WriterAsPipe DEF Next
  <1> QED
    BY <1>1, StartsAsPipe, PipelineInvariant, PTL DEF Spec, ImplementsPipe, Abstract!Spec

===================================================================================
