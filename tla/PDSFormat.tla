------------------------------ MODULE PDSFormat ------------------------------
(***************************************************************************)
(* The PDS file, word by word: written by PDSOutputer.cc and pds_writer.cc *)
(* and read by pds_reading.cc, for SharedPDSSource, which reads one event  *)
(* after the other, and for a lane's PDSSource, which skips the events of  *)
(* the other lanes.  The outputer may die, and leaves what the stream had  *)
(* written by then.                                                        *)
(*                                                                         *)
(* The reader checks what it reads with assertions, which the default      *)
(* build, Release, leaves out: asserts tells the two builds apart.  A      *)
(* stream that failed goes on saying so, but seekg clears its eofbit.      *)
(*                                                                         *)
(* A word is a number.  Words that hold serialized or compressed bytes, or *)
(* characters, are numbers that say whose they are.                        *)
(***************************************************************************)
EXTENDS Integers, Sequences, FiniteSets, SequencesExt

CONSTANTS NEvents,         \* events of the job
          NProducts,       \* data products of an event
          Sizes,           \* bytes a data product may serialize to
          CompressedSizes, \* bytes an event may compress to
          Compressions,    \* of {"None", "LZ4", "ZSTD"}
          Word,            \* bound of a word: 2^32
          MaxIndex         \* bound of the event index a lane asks for

VARIABLES asserts, compression, kind, \* the build, the parameter, the source
          size, cBytes,               \* what ROOT and the compressor give
          file, firstTime_, output,   \* the outputer; history: events written
          writer,                     \* "writing", "done" or "dead"
          pc,                         \* the reader
          pos, rdstate,               \* its stream: words read; flags
          presentEventIndex_, wanted,
          productInfo,                \* of readFileHeader
          eventID_, objects,          \* what the lane has
          given                       \* index of the event it was given last

parameters == <<asserts, compression, kind, size, cBytes>>
outputer == <<file, firstTime_, output, writer>>
stream == <<pos, rdstate>>
lane == <<eventID_, objects, given>>
reader == <<pc, stream, presentEventIndex_, wanted, productInfo, lane>>
vars == <<parameters, outputer, reader>>

Events == 0..(NEvents - 1)
Products == 0..(NProducts - 1)
None == -1
Junk == -2

BytesToWords(n) == (n \div 4) + IF n % 4 = 0 THEN 0 ELSE 1

\* the identifiers of the events: the event numbers go beyond one word
EventID(e) == [run |-> 1, lumi |-> e + 1, event |-> Word - 1 + e]

\* words of a blob, of compressed bytes, of names and of type names
BlobWord(e, p, k) == 1000 + 100 * e + 10 * p + k
CompressedWord(e, k) == 2000 + 100 * e + k
NameWord(p, k) == 3000 + 10 * p + k
TypeWord(k) == 4000 + k

\* product p is called by a name of p + 3 letters and is of the class p
NameLength(p) == p + 3
TypeNamesLength == 5 * NProducts

----------------------------------------------------------------------------
\* PDSOutputer

NameWords(p) == [k \in 1..BytesToWords(NameLength(p) + 1) |-> NameWord(p, k)]

\* the buffer of writeFileHeader: record names, types, no further types, products
HeaderBuffer ==
  <<2, 5000, 5001, BytesToWords(TypeNamesLength)>>
    \o [k \in 1..BytesToWords(TypeNamesLength) |-> TypeWord(k)]
    \o <<0, NProducts>>
    \o FlattenSeq([i \in 1..NProducts |-> <<i - 1>> \o NameWords(i - 1)])

\* file type, file id, compression, size of the buffer, which is said again
FileHeader == <<6001, 0, 6100, Len(HeaderBuffer)>> \o HeaderBuffer \o <<Len(HeaderBuffer)>>

EventHeader(e) ==
  <<0, EventID(e).run, EventID(e).lumi, EventID(e).event \div Word, EventID(e).event % Word>>

Blob(e, p) == [k \in 1..BytesToWords(size[e][p]) |-> BlobWord(e, p, k)]

\* the buffer of writeDataProductsToOutputBuffer before it is compressed
Uncompressed(e) ==
  FlattenSeq([i \in 1..NProducts |-> <<i - 1, Len(Blob(e, i - 1))>> \o Blob(e, i - 1)])

\* compressBuffer
CompressedSize(e) == IF compression = "None" THEN 4 * Len(Uncompressed(e)) ELSE cBytes
Compressed(e) ==
  IF compression = "None" THEN Uncompressed(e)
  ELSE [k \in 1..BytesToWords(cBytes) |-> CompressedWord(e, k)]

\* Mutated: the bytes of the last word are not recorded.
RecordWithoutLastBytes(e) ==
  LET recordSize == BytesToWords(CompressedSize(e)) + 1 IN
    <<recordSize, 4 * Len(Uncompressed(e))>> \o Compressed(e) \o <<recordSize>>

\* ... and with its size on both sides; the bytes used of the last word are in the
\* two lowest bits of the word with the uncompressed size
Record(e) ==
  LET recordSize == BytesToWords(CompressedSize(e)) + 1 IN
    <<recordSize, 4 * Len(Uncompressed(e)) + (CompressedSize(e) % 4)>>
      \o Compressed(e) \o <<recordSize>>

\* output of the next event
Output ==
  /\ writer = "writing" /\ output < NEvents
  /\ file' = (IF firstTime_ THEN FileHeader ELSE file) \o EventHeader(output) \o Record(output)
  /\ firstTime_' = FALSE
  /\ output' = output + 1
  /\ UNCHANGED <<parameters, writer, reader>>

Close ==
  /\ writer = "writing" /\ output = NEvents
  /\ writer' = "done"
  /\ UNCHANGED <<parameters, file, firstTime_, output, reader>>

\* the job dies; the stream had written its file header and some words more
Die ==
  /\ writer = "writing" /\ output > 0
  /\ \E n \in Len(FileHeader)..Len(file) : file' = SubSeq(file, 1, n)
  /\ writer' = "dead"
  /\ UNCHANGED <<parameters, firstTime_, output, reader>>

----------------------------------------------------------------------------
\* pds_reading.cc

\* readProductInfo: the words of a name are counted again from the string; place[k] is
\* where the info behind k others begins
NameAt(buffer, i) == (buffer[i + 1] - 3001) \div 10

ProductPlaces(buffer, first, n) ==
  LET place[k \in 0..n] ==
        IF k = 0 THEN first
        ELSE place[k - 1] + 1 + BytesToWords(NameLength(NameAt(buffer, place[k - 1])) + 1)
  IN place

\* the products, and that nothing of the buffer is left but its size
ProductInfo(buffer, first, n) ==
  LET place == ProductPlaces(buffer, first, n)
  IN [k \in 1..n |-> [name |-> NameAt(buffer, place[k - 1]), class |-> buffer[place[k - 1]]]]
       \o <<[rest |-> Len(buffer) + 1 - place[n]]>>

ReadFileHeader(words) ==
  LET buffer == SubSeq(words, 5, 4 + words[4] + 1)
      types == 2 + buffer[1]            \* after readRecordNames
      more == types + 1 + buffer[types] \* after readTypes
      infos == more + 1 + buffer[more]  \* after the second readTypes
  IN ProductInfo(buffer, infos + 1, buffer[infos])

Open ==
  /\ pc = "open" /\ writer # "writing"
  /\ productInfo' = ReadFileHeader(file)
  /\ pos' = 4 + file[4] + 1
  /\ pc' = "next"
  /\ UNCHANGED <<parameters, outputer, rdstate, presentEventIndex_, wanted, lane>>

\* the lane's next event: SharedPDSSource takes what comes
NextIndex ==
  /\ pc = "next"
  /\ wanted' \in IF kind = "SharedPDSSource" THEN {presentEventIndex_}
                 ELSE presentEventIndex_..MaxIndex
  /\ wanted' <= MaxIndex
  /\ pc' = "read"
  /\ UNCHANGED <<parameters, outputer, stream, presentEventIndex_, productInfo, lane>>

ReturnsFalse ==
  /\ pc' = "ended"
  /\ rdstate' = "eof"
  /\ UNCHANGED <<pos, presentEventIndex_, lane>>

Abort ==
  /\ pc' = "aborted"
  /\ UNCHANGED <<stream, presentEventIndex_, lane>>

\* the words from i on, as many as the reader asks for: 0 where there are none
Words(i, n) == [k \in 1..n |-> IF i + k <= Len(file) THEN file[i + k] ELSE 0]

Left == Len(file) - pos

\* Mutated: the event that was skipped is not counted.
SkipUncounted ==
  LET after == pos + 6 + file[pos + 6] + 1
  IN /\ rdstate = "good" /\ Left >= 6
     /\ IF after <= Len(file) THEN pos' = after /\ UNCHANGED rdstate
                              ELSE ~asserts /\ rdstate' = "eof" /\ UNCHANGED pos
     /\ UNCHANGED <<pc, lane, presentEventIndex_>>

\* skipToNextEvent: five words are skipped, and the size read
SkipGood ==
  LET bufferSize == file[pos + 6]
      after == pos + 6 + bufferSize + 1
  IN /\ rdstate = "good" /\ Left >= 6
     /\ IF after <= Len(file)
          THEN pos' = after /\ UNCHANGED rdstate /\ (asserts => file[after] = bufferSize)
          ELSE ~asserts /\ rdstate' = "eof" /\ UNCHANGED pos
     /\ presentEventIndex_' = presentEventIndex_ + 1
     /\ UNCHANGED <<pc, lane>>

SkipAborts ==
  /\ asserts /\ rdstate = "good" /\ Left >= 6
  /\ pos + 6 + file[pos + 6] + 1 > Len(file)
  /\ Abort

SkipAtEnd ==
  /\ rdstate = "good" /\ Left < 6
  /\ ReturnsFalse

\* after a failure, seekg clears eofbit, nothing is read, and the function says
\* that it skipped an event
SkipFailed ==
  /\ rdstate \in {"eof", "fail"}
  /\ rdstate' = "fail"
  /\ presentEventIndex_' = presentEventIndex_ + 1
  /\ UNCHANGED <<pc, pos, lane>>

Skip ==
  /\ pc = "read" /\ presentEventIndex_ # wanted
  /\ SkipGood \/ SkipAborts \/ SkipAtEnd \/ SkipFailed
  /\ UNCHANGED <<parameters, outputer, wanted, productInfo>>

\* LZ4_decompress_safe, ZSTD_decompress: they leave zeros if the bytes are not
\* all there
Decompressed(words, bytes, uWords) ==
  IF \E e \in Events : words = Compressed(e) /\ bytes = CompressedSize(e)
    THEN Uncompressed(CHOOSE e \in Events : words = Compressed(e))
    ELSE [k \in 1..uWords |-> 0]

\* uncompressEventBuffer
UncompressEventBuffer(buffer) ==
  LET bytesInLastWord == buffer[1] % 4
      bytes == (Len(buffer) - 1) * 4 + IF bytesInLastWord = 0 THEN 0 ELSE bytesInLastWord - 4
  IN IF compression = "None" THEN Tail(buffer)
     ELSE Decompressed(Tail(buffer), bytes, buffer[1] \div 4)

\* "assert(buffer.size() == uBuffer.size()+2)"
SizeAssertion(buffer) == compression = "None" => Len(buffer) = (buffer[1] \div 4) + 2

\* std::copy beyond the end of uBuffer: undefined, taken for the end of the job
Overrun(buffer) == compression = "None" /\ Len(buffer) - 1 > buffer[1] \div 4

\* deserializeDataProducts: the turns of its loop, into the lane's objects; a single
\* word is left only where zeros stand for what was missing
Turn(words, s) ==
  IF s.at >= Len(words) THEN s
  ELSE [at |-> s.at + 2 + words[s.at + 1],
        objects |-> [s.objects EXCEPT ![words[s.at]] =
                       SubSeq(words, s.at + 2, s.at + 1 + words[s.at + 1])]]

Turns(words, o) ==
  LET after[n \in 0..Len(words)] ==
        IF n = 0 THEN [at |-> 1, objects |-> o] ELSE Turn(words, after[n - 1])
  IN after

Deserialize(words, o) == Turns(words, o)[Len(words)].objects

\* readCompressedEventBuffer and what the source does with the buffer
ReadGood ==
  LET header == Words(pos, 6)
      buffer == Words(pos + 6, header[6] + 1)
      complete == pos + 6 + header[6] + 1 <= Len(file)
      record == Front(buffer)
  IN /\ rdstate = "good" /\ Left >= 6
     /\ IF asserts /\ ~(complete /\ Last(buffer) = header[6] /\ SizeAssertion(record))
          THEN Abort
        ELSE IF Overrun(record) THEN Abort
          ELSE /\ eventID_' = [run |-> header[2], lumi |-> header[3],
                               event |-> header[4] * Word + header[5]]
               /\ objects' = Deserialize(UncompressEventBuffer(record), objects)
               /\ given' = wanted
               /\ pos' = pos + 6 + Len(buffer)
               /\ rdstate' = IF complete THEN "good" ELSE "eof"
               /\ presentEventIndex_' = presentEventIndex_ + 1
               /\ pc' = "next"

\* a read that meets the end of the file, also within the header of an event
ReadAtEnd ==
  /\ rdstate = "eof" \/ (rdstate = "good" /\ Left < 6)
  /\ ReturnsFalse

\* failbit without eofbit is not taken for the end: what was not read is used
ReadFailed ==
  /\ rdstate = "fail"
  /\ \/ Abort
     \/ /\ eventID_' = [run |-> Junk, lumi |-> Junk, event |-> Junk]
        /\ given' = wanted
        /\ presentEventIndex_' = presentEventIndex_ + 1
        /\ pc' = "next"
        /\ UNCHANGED <<stream, objects>>

Read ==
  /\ pc = "read" /\ presentEventIndex_ = wanted
  /\ ReadGood \/ ReadAtEnd \/ ReadFailed
  /\ UNCHANGED <<parameters, outputer, wanted, productInfo>>

Init ==
  /\ asserts \in BOOLEAN
  /\ compression \in Compressions
  /\ kind \in {"SharedPDSSource", "ReplicatedPDSSource"}
  /\ size \in [Events -> [Products -> Sizes]]
  /\ cBytes \in IF compression = "None" THEN {0} ELSE CompressedSizes
  /\ file = <<>> /\ firstTime_ = TRUE /\ output = 0 /\ writer = "writing"
  /\ pc = "open" /\ pos = 0 /\ rdstate = "good"
  /\ presentEventIndex_ = 0 /\ wanted = 0
  /\ productInfo = <<>>
  /\ eventID_ = [run |-> None, lumi |-> None, event |-> None]
  /\ objects = [p \in Products |-> <<>>]
  /\ given = None

Finished == /\ pc \in {"ended", "aborted"} \/ (pc = "next" /\ presentEventIndex_ > MaxIndex)
            /\ UNCHANGED vars

Next == Output \/ Close \/ Die \/ Open \/ NextIndex \/ Skip \/ Read \/ Finished

Spec == Init /\ [][Next]_vars
----------------------------------------------------------------------------
TypeOK == /\ output \in 0..NEvents /\ writer \in {"writing", "done", "dead"}
          /\ pc \in {"open", "next", "read", "ended", "aborted"}
          /\ pos \in Nat /\ rdstate \in {"good", "eof", "fail"}
          /\ presentEventIndex_ \in 0..(MaxIndex + 1) /\ wanted \in 0..MaxIndex
          /\ given \in {None} \cup 0..MaxIndex

\* where the record of event e ends
Records(n) == FlattenSeq([i \in 1..n |-> EventHeader(i - 1) \o Record(i - 1)])
EndOfRecord(e) == Len(FileHeader) + Len(Records(e + 1))

\* the events whose records are complete in the file
Whole == Cardinality({e \in Events : EndOfRecord(e) <= Len(file)})

\* the file breaks off behind the size of a record
CutInRecord == Len(file) >= EndOfRecord(Whole - 1) + 6

\* The reader gives the event of the index it was asked for, with its identifier
\* and the words of every data product, skipping what it must; an event that the
\* file does not have complete is never given, except by a build without
\* assertions from a file that breaks off inside a record.
EventsAsWritten ==
  /\ pc # "open" => productInfo =
       [i \in 1..NProducts |-> [name |-> i - 1, class |-> i - 1]] \o <<[rest |-> 1]>>
  /\ given # None =>
       /\ given < Whole => /\ eventID_ = EventID(given)
                           /\ objects = [p \in Products |-> Blob(given, p)]
       /\ given >= Whole => ~asserts /\ CutInRecord

\* The source ends only behind the last complete event, and a build with
\* assertions aborts only for a file that breaks off inside a record: or for any
\* file that is not compressed, since the size that is asserted
\* (pds_reading.cc:209) is never that of the buffer.
EndsWithTheFile ==
  /\ pc = "ended" => wanted >= Whole
  /\ pc = "aborted" => CutInRecord \/ (asserts /\ compression = "None")
=============================================================================
