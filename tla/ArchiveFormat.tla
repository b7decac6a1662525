---------------------------- MODULE ArchiveFormat ----------------------------
(***************************************************************************)
(* The `.smcvault' archive of crates/smcv-backup/src/lib.rs: a public      *)
(* header, a manifest frame, data frames that carry the logical stream in  *)
(* chunks, and a final frame with its totals.                              *)
(*                                                                         *)
(* A byte is a number.  Sealing is the record of what is sealed and of     *)
(* what it is bound to: only the key that sealed it opens it, and only     *)
(* with the same associated data.                                          *)
(***************************************************************************)
EXTENDS Integers, Sequences

CONSTANTS
    RECORD_HEADER_BYTES,        \* 8 in the code: kind, flags and length
    MAX_LOGICAL_RECORD_BYTES,
    MAX_RECORDS

ASSUME ArchiveAssumption ==
    /\ RECORD_HEADER_BYTES \in Nat \ {0, 1}
    /\ MAX_LOGICAL_RECORD_BYTES \in Nat /\ MAX_RECORDS \in Nat

\* What a loop over the elements of seq, in their order, makes of base.
Fold(op(_, _), base, seq) ==
    LET after[n \in 0..Len(seq)] == IF n = 0 THEN base ELSE op(after[n - 1], seq[n])
    IN after[Len(seq)]

Manifest == 1
Data == 2
Final == 3

-----------------------------------------------------------------------------
(* RecordCounter follows the record boundaries through the chunks.  Of a   *)
(* header the first byte is the flags and the last one the length.         *)

counter_new == [header |-> << >>, remaining_payload |-> 0, records |-> 0, failed |-> FALSE]

counter_byte(c, byte) ==
    LET header == Append(c.header, byte)
    IN CASE c.failed -> c
         [] ~c.failed /\ c.remaining_payload > 0 ->
              [c EXCEPT !.remaining_payload = @ - 1]
         [] ~c.failed /\ c.remaining_payload = 0 /\ Len(header) < RECORD_HEADER_BYTES ->
              [c EXCEPT !.header = header]
         [] OTHER ->
              [header |-> << >>, remaining_payload |-> header[Len(header)], records |-> c.records + 1,
               failed |-> \/ Head(header) > 1
                          \/ header[Len(header)] > MAX_LOGICAL_RECORD_BYTES
                          \/ c.records + 1 > MAX_RECORDS]

\* (mutated: every chunk starts with a new header)
UpdateForgetsHeader(c, chunk) == Fold(counter_byte, [c EXCEPT !.header = << >>], chunk)

counter_update(c, chunk) == Fold(counter_byte, c, chunk)

counter_finishes(c) == ~c.failed /\ c.header = << >> /\ c.remaining_payload = 0

-----------------------------------------------------------------------------
(* The writer.                                                             *)

\* write_frame: the associated data of frame_aad are the archive, the sequence,
\* the kind and the length.
write_frame(archive, sequence, kind, plaintext) ==
    [sequence |-> sequence, kind |-> kind,
     sealed |-> [archive |-> archive, sequence |-> sequence, kind |-> kind,
                 plaintext |-> plaintext, intact |-> TRUE]]

Chunks(stream, chunk_bytes) ==
    [k \in 1..(Len(stream) + chunk_bytes - 1) \div chunk_bytes |->
       SubSeq(stream, (k - 1) * chunk_bytes + 1,
              IF k * chunk_bytes < Len(stream) THEN k * chunk_bytes ELSE Len(stream))]

\* write_archive.  The digest of the stream is the stream.  (It refuses a stream that
\* does not end with a record; encode_logical_snapshot makes none.)
write_archive(archive, key, stream, chunk_bytes) ==
    LET chunks == Chunks(stream, chunk_bytes)
        counter == Fold(counter_update, counter_new, chunks)
        final == <<counter.records, Len(stream), stream, Len(chunks)>>
    IN [archive_id |-> archive, wrapped_for |-> key, trailing |-> FALSE,
        frames |-> <<write_frame(archive, 0, Manifest, << >>)>>
                   \o [k \in 1..Len(chunks) |-> write_frame(archive, k, Data, chunks[k])]
                   \o <<write_frame(archive, Len(chunks) + 1, Final, final)>>]

-----------------------------------------------------------------------------
(* The reader.                                                             *)

\* read_frame: the sequence is the expected one and the frame opens.
read_frame(archive, expected_sequence, frame) ==
    /\ frame.sequence = expected_sequence
    /\ frame.sealed.archive = archive
    /\ frame.sealed.sequence = frame.sequence
    /\ frame.sealed.kind = frame.kind
    /\ frame.sealed.intact

ReaderStart ==
    [sequence |-> 0, counter |-> counter_new, logical |-> << >>, data_frames |-> 0,
     final |-> << >>, failed |-> FALSE]

\* One turn of the loop of decode_archive, or the manifest before it.
decode_frame(archive, r, frame) ==
    LET opened == [r EXCEPT !.sequence = @ + 1]
    IN IF \/ r.failed \/ r.final # << >>
          \/ ~read_frame(archive, r.sequence, frame)
          \/ (frame.kind = Manifest) # (r.sequence = 0)
       THEN [r EXCEPT !.failed = TRUE]
       ELSE CASE frame.kind = Manifest -> opened
              [] frame.kind = Data ->
                   [opened EXCEPT !.counter = counter_update(@, frame.sealed.plaintext),
                                  !.logical = @ \o frame.sealed.plaintext,
                                  !.data_frames = @ + 1]
              [] OTHER -> [opened EXCEPT !.final = frame.sealed.plaintext]

\* decode_archive: what the archive says, if all of it is there and as written.
decode_archive(file, key) ==
    LET r == Fold(LAMBDA acc, frame : decode_frame(file.archive_id, acc, frame),
                      ReaderStart, file.frames)
    IN [ok |-> /\ file.wrapped_for = key
               /\ ~r.failed /\ r.final # << >> /\ ~file.trailing
               /\ counter_finishes(r.counter)
               /\ r.final = <<r.counter.records, Len(r.logical), r.logical, r.data_frames>>,
        logical |-> r.logical,
        records |-> r.counter.records]

-----------------------------------------------------------------------------
(* What may happen to a file between the writer and the reader: frames     *)
(* lost, repeated, exchanged, renumbered, cut short or altered, bytes      *)
(* appended, and frames of another archive under this one's header.        *)

Exchanged(frames, i, j) == [frames EXCEPT ![i] = frames[j], ![j] = frames[i]]

Damaged(file, other) ==
    LET n == Len(file.frames)
        With(frames) == [file EXCEPT !.frames = frames]
        Without(k) == SubSeq(file.frames, 1, k - 1) \o SubSeq(file.frames, k + 1, n)
        Repeated(k) == SubSeq(file.frames, 1, k) \o SubSeq(file.frames, k, n)
    IN {With(SubSeq(file.frames, 1, k)) : k \in 0..n - 1}
       \union {With(Without(k)) : k \in 1..n}
       \union {With(Repeated(k)) : k \in 1..n}
       \union {With(Exchanged(file.frames, 1, k)) : k \in 2..n}
       \union {With([file.frames EXCEPT ![k].sealed.intact = FALSE]) : k \in 1..n}
       \union {With([Without(k) EXCEPT ![k].sequence = k - 1]) : k \in 1..n - 1}
       \union {[file EXCEPT !.trailing = TRUE], With(other.frames)}
=============================================================================
