---------------------------- MODULE WeightsProofs ----------------------------
(* Proofs about Weights for all lengths of payloads and any number of      *)
(* records.                                                                *)
EXTENDS Weights, TLAPS

(* Padding goes to the next boundary, and commutes with the header.        *)
LEMMA Padding ==
  ASSUME NEW n \in Nat
  PROVE  /\ NextMultiple(n) \in Nat /\ NextMultiple(n) % ALIGN = 0
         /\ NextMultiple(HEADER_LEN + n) = HEADER_LEN + NextMultiple(n)
         /\ NextMultiple(0) = 0
  BY DEF NextMultiple, ALIGN, HEADER_LEN

(* What Append does to a sequence.                                         *)
LEMMA Appended ==
  ASSUME NEW S, NEW s \in Seq(S), NEW e \in S, NEW t, t = Append(s, e)
  PROVE  /\ t \in Seq(S) /\ Len(t) = Len(s) + 1 /\ t[Len(s) + 1] = e
         /\ \A i \in 1..Len(s) : t[i] = s[i]
         /\ t # <<>> /\ Len(s) \in Nat /\ (Len(s) = 0 <=> s = <<>>)
  OBVIOUS

(* A fresh writer has an empty body.                                       *)
LEMMA InitLayout == WInit => LayoutInv
  BY DEF WInit, LayoutInv, EmptyBlob, Blob

(* One record more keeps the layout, whatever its length.                  *)
LEMMA WriteLayout ==
  ASSUME LayoutInv, NEW dtype \in BlobDtypes, NEW size \in Nat,
         blob' = WriteRaw(blob, dtype, size)
  PROVE  LayoutInv'
  <1> DEFINE start == NextMultiple(blob.len)
             rec == [at |-> start, dtype |-> dtype, size |-> size,
                     payload |-> HEADER_LEN + start + RECORD_LEN]
             n == Len(blob.recs)
  <1>1. blob \in Blob /\ n \in Nat /\ Len(blob.offsets) = n
    BY DEF LayoutInv, Blob
  <1>2. start \in Nat /\ start % ALIGN = 0 /\ (blob.len = 0 => start = 0)
    BY <1>1, Padding DEF Blob
  <1>3. rec \in Record
    BY <1>2 DEF Record, HEADER_LEN, RECORD_LEN
  <1>4. /\ rec.at = start /\ RecordEnd(rec) = start + RECORD_LEN + size
        /\ rec.payload = HEADER_LEN + start + RECORD_LEN
    BY DEF RecordEnd
  <1>5. /\ blob'.len = start + RECORD_LEN + size
        /\ blob'.recs = Append(blob.recs, rec)
        /\ blob'.count = blob.count + 1
        /\ blob'.offsets = Append(blob.offsets, HEADER_LEN + start)
        /\ blob' = [len |-> blob'.len, recs |-> blob'.recs, count |-> blob'.count,
                    offsets |-> blob'.offsets]
    BY DEF WriteRaw
  <1> HIDE DEF start, rec
  <1>6. /\ Len(blob'.recs) = n + 1 /\ blob'.recs[n + 1] = rec
        /\ \A i \in 1..n : blob'.recs[i] = blob.recs[i]
        /\ blob'.recs \in Seq(Record) /\ blob'.recs # <<>>
        /\ (n = 0 <=> blob.recs = <<>>)
    <2>1. blob.recs \in Seq(Record)
      BY <1>1 DEF Blob
    <2> QED
      BY <1>3, <1>5, <2>1, Appended, SMTT(30)
  <1>12. /\ Len(blob'.offsets) = n + 1 /\ blob'.offsets[n + 1] = HEADER_LEN + start
         /\ \A i \in 1..n : blob'.offsets[i] = blob.offsets[i]
         /\ blob'.offsets \in Seq(Nat)
    <2>1. blob.offsets \in Seq(Nat) /\ HEADER_LEN + start \in Nat
      BY <1>1, <1>2 DEF Blob, HEADER_LEN
    <2> QED
      BY <1>1, <1>5, <2>1, Appended
  <1> HIDE DEF n
  <1>7. blob' \in Blob
    <2>1. blob.count \in Nat
      BY <1>1 DEF Blob
    <2>2. blob'.len \in Nat /\ blob'.count \in Nat
      BY <1>2, <1>5, <2>1 DEF RECORD_LEN
    <2> QED
      BY <1>5, <1>6, <1>12, <2>2 DEF Blob
  <1>8. blob'.count = Len(blob'.recs) /\ Len(blob'.offsets) = Len(blob'.recs)
    BY <1>5, <1>6, <1>12 DEF LayoutInv, n
  <1>9. blob'.len = RecordEnd(blob'.recs[Len(blob'.recs)])
    BY <1>4, <1>5, <1>6
  <1>10. blob'.recs[1].at = 0
    <2>1. CASE n = 0
      BY <1>2, <1>4, <1>6, <2>1 DEF LayoutInv
    <2>2. CASE n > 0
      BY <1>1, <1>6, <2>2 DEF LayoutInv
    <2> QED
      BY <1>1, <2>1, <2>2
  <1>11. ASSUME NEW i \in 1..(n + 1)
         PROVE  /\ blob'.recs[i].at % ALIGN = 0
                /\ blob'.offsets[i] = HEADER_LEN + blob'.recs[i].at
                /\ blob'.recs[i].payload = blob'.offsets[i] + RECORD_LEN
                /\ i < n + 1 =>
                     blob'.recs[i + 1].at = NextMultiple(RecordEnd(blob'.recs[i]))
    <2>1. CASE i = n + 1
      BY <1>1, <1>2, <1>4, <1>6, <1>12, <2>1
    <2>2. CASE i \in 1..n
      <3>1. /\ blob'.recs[i] = blob.recs[i] /\ blob'.offsets[i] = blob.offsets[i]
        BY <1>6, <1>12, <2>2
      <3>2. /\ blob.recs[i].at % ALIGN = 0
            /\ blob.offsets[i] = HEADER_LEN + blob.recs[i].at
            /\ blob.recs[i].payload = blob.offsets[i] + RECORD_LEN
        BY <2>2 DEF LayoutInv, n
      <3>3. i < n => /\ i + 1 \in 1..n
                     /\ blob.recs[i + 1].at = NextMultiple(RecordEnd(blob.recs[i]))
        BY <1>1, <2>2 DEF LayoutInv, n
      <3>4. i = n => blob.len = RecordEnd(blob.recs[i])
        BY <1>1, <1>6, <2>2 DEF LayoutInv, n
      <3>5. i = n => blob'.recs[i + 1].at = NextMultiple(RecordEnd(blob.recs[i]))
        BY <1>4, <1>6, <3>4 DEF start
      <3> QED
        BY <1>1, <1>6, <2>2, <3>1, <3>2, <3>3, <3>5
    <2> QED
      BY <1>1, <2>1, <2>2
  <1> QED
    BY <1>1, <1>6, <1>7, <1>8, <1>9, <1>10, <1>11 DEF LayoutInv

(* write_fp16, write_fp32 and write_int32 are such records.                *)
LEMMA NextLayout == LayoutInv /\ [WNext]_blob => LayoutInv'
  <1> SUFFICES ASSUME LayoutInv, [WNext]_blob PROVE LayoutInv'
    OBVIOUS
  <1>1. CASE WNext
    <2>1. PICK n \in Counts : Write(n)
      BY <1>1 DEF WNext
    <2>2. n * 2 \in Nat /\ n * 4 \in Nat
      BY <2>1, WeightsAssumption
    <2>3. PICK dtype \in BlobDtypes, size \in Nat :
            blob' = WriteRaw(blob, dtype, size)
      BY <2>1, <2>2
      DEF Write, WriteFp16, WriteFp32, WriteInt32, Width, BlobDtypes
    <2> QED
      BY <2>3, WriteLayout
  <1>2. CASE UNCHANGED blob
    BY <1>2 DEF LayoutInv
  <1> QED
    BY <1>1, <1>2

(* The layout of the body is that of a file that reads back, shifted by    *)
(* the header.                                                             *)
LEMMA LayoutReadsBack == LayoutInv => FileReadsBack
  <1> SUFFICES ASSUME LayoutInv PROVE FileReadsBack
    OBVIOUS
  <1> DEFINE f == FinishBlob(blob)
             n == Len(blob.recs)
  <1>1. /\ n \in Nat /\ DOMAIN blob.recs = 1..n /\ DOMAIN blob.offsets = 1..n
        /\ \A i \in 1..n : blob.recs[i] \in Record
    BY DEF LayoutInv, Blob
  <1>2. /\ f.count = n /\ f.len = HEADER_LEN + blob.len
        /\ DOMAIN f.recs = 1..n /\ Len(f.recs) = n
    BY <1>1 DEF FinishBlob, LayoutInv
  <1>3. ASSUME NEW i \in 1..n
        PROVE  /\ f.recs[i].at = HEADER_LEN + blob.recs[i].at
               /\ f.recs[i].size = blob.recs[i].size
               /\ f.recs[i].payload = blob.recs[i].payload
    BY <1>1 DEF FinishBlob, Record
  <1> HIDE DEF f
  <1>4. OffsetsTrue(f, blob.offsets)
    <2>1. ASSUME NEW i \in 1..n
          PROVE  blob.offsets[i] = f.recs[i].at /\ blob.offsets[i] % ALIGN = 0
      BY <1>1, <1>3 DEF LayoutInv, Record, ALIGN, HEADER_LEN
    <2> QED
      BY <1>1, <1>2, <2>1 DEF OffsetsTrue
  <1>5. ReadsBack(f)
    <2>1. f.recs # <<>> => f.recs[1].at = HEADER_LEN
      BY <1>1, <1>2, <1>3 DEF LayoutInv, HEADER_LEN
    <2>2. ASSUME NEW i \in 1..n
          PROVE  LET end == f.recs[i].at + RECORD_LEN + f.recs[i].size
                 IN /\ f.recs[i].payload = f.recs[i].at + RECORD_LEN
                    /\ IF i = n THEN f.len = end
                       ELSE f.recs[i + 1].at = NextMultiple(end)
      <3>1. /\ f.recs[i].at + RECORD_LEN + f.recs[i].size
                 = HEADER_LEN + RecordEnd(blob.recs[i])
            /\ RecordEnd(blob.recs[i]) \in Nat
        <4>1. \A r \in Record : r.at \in Nat /\ r.size \in Nat
          BY DEF Record
        <4>2. blob.recs[i].at \in Nat /\ blob.recs[i].size \in Nat
          BY <1>1, <4>1
        <4>3. \A a, b \in Nat : (64 + a) + 64 + b = 64 + (a + 64 + b)
          OBVIOUS
        <4>4. f.recs[i].at = HEADER_LEN + blob.recs[i].at
              /\ f.recs[i].size = blob.recs[i].size
          BY <1>3
        <4> QED
          BY <4>2, <4>3, <4>4, SMTT(30) DEF RecordEnd, RECORD_LEN, HEADER_LEN
      <3>2. f.recs[i].payload = f.recs[i].at + RECORD_LEN
        BY <1>1, <1>3 DEF LayoutInv
      <3>3. i = n => f.len = HEADER_LEN + RecordEnd(blob.recs[i])
        BY <1>1, <1>2 DEF LayoutInv
      <3>4. i # n => f.recs[i + 1].at = NextMultiple(HEADER_LEN + RecordEnd(blob.recs[i]))
        <4>1. i # n => i + 1 \in 1..n /\ i < n
          BY <1>1
        <4>2. i # n => blob.recs[i + 1].at = NextMultiple(RecordEnd(blob.recs[i]))
          BY <1>1, <4>1 DEF LayoutInv
        <4>3. i # n => f.recs[i + 1].at = HEADER_LEN + blob.recs[i + 1].at
          BY <1>3, <4>1
        <4> QED
          BY <4>2, <4>3, <3>1, Padding
      <3> QED
        BY <3>1, <3>2, <3>3, <3>4
    <2> QED
      BY <1>1, <1>2, <2>1, <2>2 DEF ReadsBack
  <1> QED
    BY <1>4, <1>5 DEF FileReadsBack, f

(* After any number of records of any lengths the file that finish writes  *)
(* reads back, and every offset handed out is that of its record.          *)
THEOREM WeightsFileReadsBack == WSpec => []FileReadsBack
  BY InitLayout, NextLayout, LayoutReadsBack, PTL DEF WSpec
=============================================================================
