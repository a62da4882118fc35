------------------------------- MODULE Weights -------------------------------
(***************************************************************************)
(* BlobWriter of rust/ane-bridge-mil/src/weights.rs: the MILBlob file that *)
(* holds a program's weights.                                              *)
(*                                                                         *)
(* Lengths and offsets are in bytes and are the code's own numbers; what   *)
(* the payload bytes are is left out.  Every statement of this module      *)
(* about a file is about where its bytes are.                              *)
(***************************************************************************)
EXTENDS Naturals, Sequences

CONSTANTS
  Counts,     (* element counts of the slices a client writes             *)
  MaxRecords  (* bound of the model: records in one file                  *)

ASSUME WeightsAssumption == Counts \subseteq Nat /\ MaxRecords \in Nat

VARIABLE blob  (* the writer, and the offsets it has handed out           *)

HEADER_LEN == 64
RECORD_LEN == 64
ALIGN == 64

BlobDtypes == {"Fp16", "Fp32", "Int32"}
Width(dtype) == IF dtype = "Fp16" THEN 2 ELSE 4

(* One record of the body: where it starts, and its header's fields.       *)
Record == [at : Nat, dtype : BlobDtypes, size : Nat, payload : Nat]

(* The length of body, how it is filled, count, and what write_raw         *)
(* returned for each record.                                               *)
Blob == [len : Nat, recs : Seq(Record), count : Nat, offsets : Seq(Nat)]

EmptyBlob == [len |-> 0, recs |-> <<>>, count |-> 0, offsets |-> <<>>]

(* usize::next_multiple_of(ALIGN).                                         *)
NextMultiple(n) == ((n + (ALIGN - 1)) \div ALIGN) * ALIGN

(* Wrong variant: the body is not padded out before a record.              *)
WriteRawUnpadded(b, dtype, size) ==
  LET off == HEADER_LEN + b.len
  IN [len     |-> b.len + RECORD_LEN + size,
      recs    |-> Append(b.recs, [at |-> b.len, dtype |-> dtype,
                                  size |-> size,
                                  payload |-> off + RECORD_LEN]),
      count   |-> b.count + 1,
      offsets |-> Append(b.offsets, off)]

(* Pads the body, appends one record and its payload, and returns the      *)
(* offset in the file that the record will have.                           *)
WriteRaw(b, dtype, size) ==
  LET start == NextMultiple(b.len)
      off == HEADER_LEN + start
  IN [len     |-> start + RECORD_LEN + size,
      recs    |-> Append(b.recs, [at |-> start, dtype |-> dtype,
                                  size |-> size,
                                  payload |-> off + RECORD_LEN]),
      count   |-> b.count + 1,
      offsets |-> Append(b.offsets, off)]

(* write_fp16, write_fp32 and write_int32 of n elements.                   *)
WriteFp16(b, n) == WriteRaw(b, "Fp16", n * Width("Fp16"))
WriteFp32(b, n) == WriteRaw(b, "Fp32", n * Width("Fp32"))
WriteInt32(b, n) == WriteRaw(b, "Int32", n * Width("Int32"))

(* finish: the header, resized to HEADER_LEN, and then the body.           *)
FinishBlob(b) ==
  [count |-> b.count,
   len   |-> HEADER_LEN + b.len,
   recs  |-> [i \in DOMAIN b.recs |-> [b.recs[i] EXCEPT !.at = HEADER_LEN + @]]]

-----------------------------------------------------------------------------
WInit == blob = EmptyBlob

Write(n) ==
  /\ Len(blob.recs) < MaxRecords
  /\ \/ blob' = WriteFp16(blob, n)
     \/ blob' = WriteFp32(blob, n)
     \/ blob' = WriteInt32(blob, n)

WNext == \E n \in Counts : Write(n)

WSpec == WInit /\ [][WNext]_blob

-----------------------------------------------------------------------------
(* Every offset handed out is where the finished file has that record, on  *)
(* an ALIGN boundary.                                                      *)
OffsetsTrue(f, offsets) ==
  /\ DOMAIN offsets = DOMAIN f.recs
  /\ \A i \in DOMAIN offsets : /\ offsets[i] = f.recs[i].at
                               /\ offsets[i] % ALIGN = 0

(* The header's count is the number of records, the payload offset of each *)
(* record is the byte after it, and a reader that steps from a record to   *)
(* the next boundary after its payload finds the next record, and after    *)
(* the last one the end of the file.                                       *)
ReadsBack(f) ==
  /\ f.count = Len(f.recs)
  /\ f.recs # <<>> => f.recs[1].at = HEADER_LEN
  /\ \A i \in DOMAIN f.recs :
       LET r == f.recs[i]
           end == r.at + RECORD_LEN + r.size
       IN /\ r.payload = r.at + RECORD_LEN
          /\ IF i = Len(f.recs) THEN f.len = end
             ELSE f.recs[i + 1].at = NextMultiple(end)

(* At any time the file that finish would write reads back record by       *)
(* record (weights.rs:7-19), and every BLOBFILE offset given out so far    *)
(* is the offset of its record (weights.rs:21-23), whatever the lengths of *)
(* the payloads before it.                                                 *)
FileReadsBack ==
  /\ OffsetsTrue(FinishBlob(blob), blob.offsets)
  /\ ReadsBack(FinishBlob(blob))

(* The inductive invariant that WeightsProofs.tla proves: the body's       *)
(* layout, in offsets of the body itself.                                  *)
RecordEnd(r) == r.at + RECORD_LEN + r.size

LayoutInv ==
  /\ blob \in Blob
  /\ blob.count = Len(blob.recs) /\ Len(blob.offsets) = Len(blob.recs)
  /\ blob.len = IF blob.recs = <<>> THEN 0 ELSE RecordEnd(blob.recs[Len(blob.recs)])
  /\ blob.recs # <<>> => blob.recs[1].at = 0
  /\ \A i \in 1..Len(blob.recs) :
       /\ blob.recs[i].at % ALIGN = 0
       /\ blob.offsets[i] = HEADER_LEN + blob.recs[i].at
       /\ blob.recs[i].payload = blob.offsets[i] + RECORD_LEN
       /\ i < Len(blob.recs) =>
            blob.recs[i + 1].at = NextMultiple(RecordEnd(blob.recs[i]))
=============================================================================
