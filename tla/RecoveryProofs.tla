--------------------------- MODULE RecoveryProofs ---------------------------
(***************************************************************************)
(* An archive decodes when it is as it was written, and not otherwise.     *)
(* An installation that is started up and restored by several processes:   *)
(* what is ready is whole, opens, is kept, and holds what was confirmed.   *)
(***************************************************************************)
EXTENDS RecoveryChannel, FiniteSetTheorems, NaturalsInduction, WellFoundedInduction, TLAPS

\* The time each prover may take for a step.
USE ZenonT(60), SMTT(60)

-----------------------------------------------------------------------------
(* The loops of the archive format.                                        *)

\* A set of numbers that is not empty has a least one.
LEMMA LeastOf ==
    ASSUME NEW S, S \subseteq Nat, S # {}
    PROVE  \E x \in S : \A y \in S : x <= y
<1>1. PICK x \in S : \A y \in S : ~(<<y, x>> \in OpToRel(<, Nat))
  BY WFMin, NatLessThanWellFounded
<1>2. \A y \in S : ~(y < x)
  BY <1>1 DEF OpToRel
<1> QED
  BY <1>2, SMTT(60)

\* What holds of the first number of an interval and goes on holding is true of all.
LEMMA Upwards ==
    ASSUME NEW n \in Nat, NEW P, 0 \in P,
           \A k \in 0..n : k \in P /\ k + 1 <= n => k + 1 \in P
    PROVE  0..n \subseteq P
<1> DEFINE Q == (0..n) \ P
<1> SUFFICES ASSUME Q # {} PROVE FALSE
  OBVIOUS
<1>1. Q \subseteq Nat
  BY SMTT(60)
<1>2. PICK x \in Q : \A y \in Q : x <= y
  BY <1>1, LeastOf
<1>3. x \in 0..n /\ x \notin P
  OBVIOUS
<1>4. x - 1 \in 0..n /\ x - 1 + 1 = x /\ x <= n /\ ~(x <= x - 1)
  BY <1>3, SMTT(60)
<1>5. x - 1 \notin Q
  BY <1>2, <1>4
<1>6. x - 1 \in P
  BY <1>4, <1>5
<1> QED
  BY <1>3, <1>4, <1>6

\* One turn of the three loops: over the bytes of a chunk, the chunks of a stream and
\* the frames of a file.
Turn(loop, archive, x, e) ==
    CASE loop = "bytes" -> counter_byte(x, e)
      [] loop = "chunks" -> counter_update(x, e)
      [] OTHER -> decode_frame(archive, x, e)

\* after[n] is what n turns make of base.
Turns(after, loop, archive, base, seq) ==
    after = [n \in 0..Len(seq) |->
               IF n = 0 THEN base ELSE Turn(loop, archive, after[n - 1], seq[n])]

\* Every loop has its states.
LEMMA TurnsExist ==
    ASSUME NEW loop, NEW archive, NEW base, NEW seq, Len(seq) \in Nat
    PROVE  \E after : Turns(after, loop, archive, base, seq)
<1> DEFINE N == Len(seq)
           Next1(x, n) == Turn(loop, archive, x, seq[n])
           Runs(f, j) == f = [n \in 0..j |-> IF n = 0 THEN base ELSE Next1(f[n - 1], n)]
           P == {j \in Nat : \E f : Runs(f, j)}
<1> HIDE DEF Next1
<1>1. 0 \in P
  <2>1. \A n \in 0..0 : n = 0
    BY SMTT(60)
  <2>2. Runs([n \in 0..0 |-> base], 0)
    BY <2>1
  <2> QED
    BY <2>2, 0 \in Nat
<1>2. ASSUME NEW j \in 0..N, j \in P, j + 1 <= N PROVE j + 1 \in P
  <2>1. PICK f : Runs(f, j)
    BY <1>2
  <2> DEFINE g == [n \in 0..(j + 1) |-> IF n = j + 1 THEN Next1(f[j], j + 1) ELSE f[n]]
  <2>2. j \in 0..j /\ j + 1 \in Nat /\ j + 1 # 0
    BY SMTT(60)
  <2>3. \A n \in 0..(j + 1) : n # j + 1 => n \in 0..j
    BY SMTT(60)
  <2>4. \A n \in 0..j : n \in 0..(j + 1) /\ n # j + 1
    BY SMTT(60)
  <2>5. \A n \in 0..j : n # 0 => n - 1 \in 0..j
    BY SMTT(60)
  <2>6. \A n \in 0..j : f[n] = IF n = 0 THEN base ELSE Next1(f[n - 1], n)
    BY <2>1
  <2>7. ASSUME NEW n \in 0..(j + 1) PROVE g[n] = IF n = 0 THEN base ELSE Next1(g[n - 1], n)
    <3>1. CASE n = j + 1
      <4>1. n - 1 = j
        BY <3>1, SMTT(60)
      <4>2. g[n] = Next1(f[j], j + 1) /\ g[j] = f[j]
        BY <2>2, <2>4, <3>1
      <4> QED
        BY <2>2, <3>1, <4>1, <4>2
    <3>2. CASE n # j + 1
      <4>1. n \in 0..j /\ g[n] = f[n]
        BY <2>3, <3>2
      <4>2. n # 0 => g[n - 1] = f[n - 1]
        BY <2>4, <2>5, <4>1
      <4> QED
        BY <2>6, <4>1, <4>2
    <3> QED
      BY <3>1, <3>2
  <2>8. g = [n \in 0..(j + 1) |-> g[n]]
    OBVIOUS
  <2> HIDE DEF g
  <2>9. Runs(g, j + 1)
    BY <2>7, <2>8
  <2> QED
    BY <2>2, <2>9
<1>3. 0..N \subseteq P
  <2> HIDE DEF P
  <2> QED
    BY <1>1, <1>2, Upwards
<1>4. N \in 0..N
  BY SMTT(60)
<1>5. PICK f : Runs(f, N)
  BY <1>3, <1>4
<1> QED
  BY <1>5 DEF Turns, Next1

\* The states of the loops, one after the other.
OverBytes(h, c, s, N) == h[0] = c /\ \A n \in 1..N : h[n] = counter_byte(h[n - 1], s[n])
OverChunks(h, c, s, N) == h[0] = c /\ \A n \in 1..N : h[n] = counter_update(h[n - 1], s[n])
OverFrames(h, a, s, N) == h[0] = ReaderStart /\ \A n \in 1..N : h[n] = decode_frame(a, h[n - 1], s[n])

\* What a loop makes of the sequence is the last of its states.
LEMMA LoopBytes ==
    ASSUME NEW c, NEW s, NEW N \in Nat, N = Len(s)
    PROVE  \E h : OverBytes(h, c, s, N) /\ counter_update(c, s) = h[N]
<1> DEFINE Runs(f) == f = [n \in 0..Len(s) |-> IF n = 0 THEN c ELSE counter_byte(f[n - 1], s[n])]
           after == CHOOSE f : Runs(f)
<1>1. counter_update(c, s) = after[Len(s)]
  BY DEF counter_update, Fold
<1>2. \A f : Runs(f) <=> Turns(f, "bytes", None, c, s)
  BY DEF Turns, Turn
<1>3. Runs(after)
  BY <1>2, TurnsExist
<1> HIDE DEF after
<1>4. 0 \in 0..N /\ \A n \in 1..N : n \in 0..N /\ n # 0
  BY SMTT(60)
<1>5. \A n \in 0..N : after[n] = IF n = 0 THEN c ELSE counter_byte(after[n - 1], s[n])
  BY <1>3
<1>6. OverBytes(after, c, s, N)
  BY <1>4, <1>5 DEF OverBytes
<1> QED
  BY <1>1, <1>6

LEMMA LoopChunks ==
    ASSUME NEW c, NEW s, NEW N \in Nat, N = Len(s)
    PROVE  \E h : OverChunks(h, c, s, N) /\ Fold(counter_update, c, s) = h[N]
<1> DEFINE Runs(f) == f = [n \in 0..Len(s) |-> IF n = 0 THEN c ELSE counter_update(f[n - 1], s[n])]
           after == CHOOSE f : Runs(f)
<1>1. Fold(counter_update, c, s) = after[Len(s)]
  BY DEF Fold
<1>2. \A f : Runs(f) <=> Turns(f, "chunks", None, c, s)
  <2>1. "chunks" # "bytes"
    OBVIOUS
  <2> QED
    BY <2>1 DEF Turns, Turn
<1>3. Runs(after)
  BY <1>2, TurnsExist
<1> HIDE DEF after
<1>4. 0 \in 0..N /\ \A n \in 1..N : n \in 0..N /\ n # 0
  BY SMTT(60)
<1>5. \A n \in 0..N : after[n] = IF n = 0 THEN c ELSE counter_update(after[n - 1], s[n])
  BY <1>3
<1>6. OverChunks(after, c, s, N)
  BY <1>4, <1>5 DEF OverChunks
<1> QED
  BY <1>1, <1>6

\* What decode_archive says of a file that the loop ended with.
Verdict(file, key, r) ==
    [ok |-> /\ file.wrapped_for = key
            /\ ~r.failed /\ r.final # << >> /\ ~file.trailing
            /\ counter_finishes(r.counter)
            /\ r.final = <<r.counter.records, Len(r.logical), r.logical, r.data_frames>>,
     logical |-> r.logical,
     records |-> r.counter.records]

LEMMA LoopFrames ==
    ASSUME NEW file, NEW key, NEW N \in Nat, N = Len(file.frames)
    PROVE  \E h : /\ OverFrames(h, file.archive_id, file.frames, N)
                  /\ decode_archive(file, key) = Verdict(file, key, h[N])
<1> DEFINE s == file.frames
           a == file.archive_id
           Runs(f) == f = [n \in 0..Len(s) |-> IF n = 0 THEN ReaderStart ELSE decode_frame(a, f[n - 1], s[n])]
           after == CHOOSE f : Runs(f)
<1>1. decode_archive(file, key) = Verdict(file, key, after[Len(s)])
  BY DEF decode_archive, Fold, Verdict
<1>2. \A f : Runs(f) <=> Turns(f, "frames", a, ReaderStart, s)
  <2>1. "frames" # "bytes" /\ "frames" # "chunks"
    OBVIOUS
  <2> QED
    BY <2>1 DEF Turns, Turn
<1>3. Runs(after)
  BY <1>2, TurnsExist
<1> HIDE DEF after
<1>4. 0 \in 0..N /\ \A n \in 1..N : n \in 0..N /\ n # 0
  BY SMTT(60)
<1>5. \A n \in 0..N : after[n] = IF n = 0 THEN ReaderStart ELSE decode_frame(a, after[n - 1], s[n])
  BY <1>3
<1>6. OverFrames(after, a, s, N)
  BY <1>4, <1>5 DEF OverFrames
<1> QED
  BY <1>1, <1>6

-----------------------------------------------------------------------------
(* The reader refuses what is not as it was written.                       *)

\* The reader has all its fields.
Reader(sequence, counter, logical, data_frames, final, failed) ==
    [sequence |-> sequence, counter |-> counter, logical |-> logical,
     data_frames |-> data_frames, final |-> final, failed |-> failed]

IsReader(r) ==
    /\ r = Reader(r.sequence, r.counter, r.logical, r.data_frames, r.final, r.failed)
    /\ r.sequence \in Nat /\ r.failed \in BOOLEAN

Changes(r, q, c, l, n, f, x) ==
    /\ r.sequence = q /\ r.counter = c /\ r.logical = l
    /\ r.data_frames = n /\ r.final = f /\ r.failed = x
    /\ [r EXCEPT !.failed = TRUE] = Reader(q, c, l, n, f, TRUE)
    /\ [r EXCEPT !.sequence = @ + 1] = Reader(q + 1, c, l, n, f, x)
    /\ \A v : [r EXCEPT !.final = v] = Reader(q, c, l, n, v, x)
    /\ \A v : [r EXCEPT !.counter = counter_update(@, v), !.logical = @ \o v, !.data_frames = @ + 1]
                = Reader(q, counter_update(c, v), l \o v, n + 1, f, x)

LEMMA ReaderFields ==
    ASSUME NEW q, NEW c, NEW l, NEW n, NEW f, NEW x, NEW r, r = Reader(q, c, l, n, f, x)
    PROVE  Changes(r, q, c, l, n, f, x)
<1>1. /\ r.sequence = q /\ r.counter = c /\ r.logical = l
      /\ r.data_frames = n /\ r.final = f /\ r.failed = x
  BY SMTT(60) DEF Reader
<1>2. [r EXCEPT !.failed = TRUE] = Reader(q, c, l, n, f, TRUE)
  <2>1. \A v : [r EXCEPT !.failed = v] = Reader(q, c, l, n, f, v)
    BY SMTT(60) DEF Reader
  <2> QED
    BY <2>1
<1>3. [r EXCEPT !.sequence = @ + 1] = Reader(q + 1, c, l, n, f, x)
  <2>1. \A v : [r EXCEPT !.sequence = v] = Reader(v, c, l, n, f, x)
    BY SMTT(60) DEF Reader
  <2> QED
    BY <1>1, <2>1
<1>4. \A v : [r EXCEPT !.final = v] = Reader(q, c, l, n, v, x)
  BY SMTT(60) DEF Reader
<1>5. ASSUME NEW v
      PROVE  [r EXCEPT !.counter = counter_update(@, v), !.logical = @ \o v, !.data_frames = @ + 1]
               = Reader(q, counter_update(c, v), l \o v, n + 1, f, x)
  <2> DEFINE u == counter_update(c, v)
             w == l \o v
             y == n + 1
             a == [r EXCEPT !.counter = u]
             b == [a EXCEPT !.logical = w]
  <2> HIDE DEF u, w, y
  <2>1. a = Reader(q, u, l, n, f, x)
    BY SMTT(60) DEF Reader
  <2> HIDE DEF a
  <2>2. b = Reader(q, u, w, n, f, x)
    BY <2>1, SMTT(60) DEF Reader
  <2> HIDE DEF b
  <2>3. [b EXCEPT !.data_frames = y] = Reader(q, u, w, y, f, x)
    BY <2>2, SMTT(60) DEF Reader
  <2> QED
    BY <1>1, <2>3 DEF a, b, u, w, y
<1> QED
  BY <1>1, <1>2, <1>3, <1>4, <1>5 DEF Changes

Refused(archive, r, frame) ==
    \/ r.failed \/ r.final # << >>
    \/ ~read_frame(archive, r.sequence, frame)
    \/ (frame.kind = Manifest) # (r.sequence = 0)

\* What a frame does to the reader.
Reads(archive, r, frame, d) ==
    /\ IsReader(d)
    /\ d.failed <=> Refused(archive, r, frame)
    /\ ~Refused(archive, r, frame) =>
         LET text == frame.sealed.plaintext
         IN  /\ d.sequence = r.sequence + 1
             /\ frame.kind = Manifest =>
                  d = Reader(r.sequence + 1, r.counter, r.logical, r.data_frames, r.final, FALSE)
             /\ frame.kind = Data =>
                  d = Reader(r.sequence + 1, counter_update(r.counter, text), r.logical \o text,
                             r.data_frames + 1, r.final, FALSE)
             /\ frame.kind \notin {Manifest, Data} =>
                  d = Reader(r.sequence + 1, r.counter, r.logical, r.data_frames, text, FALSE)

LEMMA FrameRead ==
    ASSUME NEW archive, NEW r, IsReader(r), NEW frame, NEW d, d = decode_frame(archive, r, frame)
    PROVE  Reads(archive, r, frame, d)
<1> DEFINE opened == [r EXCEPT !.sequence = @ + 1]
           text == frame.sealed.plaintext
<1>1. Manifest # Data
  BY SMTT(60) DEF Manifest, Data
<1>2. /\ r = Reader(r.sequence, r.counter, r.logical, r.data_frames, r.final, r.failed)
      /\ r.sequence + 1 \in Nat /\ r.failed \in BOOLEAN /\ r.sequence \in Nat
  BY SMTT(60) DEF IsReader
<1>3. opened = Reader(r.sequence + 1, r.counter, r.logical, r.data_frames, r.final, r.failed)
  <2>1. Changes(r, r.sequence, r.counter, r.logical, r.data_frames, r.final, r.failed)
    BY <1>2, ReaderFields
  <2> QED
    BY <2>1 DEF Changes
<1>4. CASE Refused(archive, r, frame)
  <2>1. d = [r EXCEPT !.failed = TRUE]
    BY <1>4 DEF decode_frame, Refused
  <2>2. d = Reader(r.sequence, r.counter, r.logical, r.data_frames, r.final, TRUE)
    <3>1. Changes(r, r.sequence, r.counter, r.logical, r.data_frames, r.final, r.failed)
      BY <1>2, ReaderFields
    <3> QED
      BY <2>1, <3>1 DEF Changes
  <2>3. /\ d.sequence = r.sequence /\ d.counter = r.counter /\ d.logical = r.logical
        /\ d.data_frames = r.data_frames /\ d.final = r.final /\ d.failed = TRUE
    <3>1. Changes(d, r.sequence, r.counter, r.logical, r.data_frames, r.final, TRUE)
      BY <2>2, ReaderFields
    <3> QED
      BY <3>1 DEF Changes
  <2> QED
    BY <1>2, <1>4, <2>2, <2>3 DEF IsReader, Reads
<1>5. CASE ~Refused(archive, r, frame)
  <2>1. r.failed = FALSE
    BY <1>2, <1>5 DEF Refused
  <2>2. d = CASE frame.kind = Manifest -> opened
              [] frame.kind = Data ->
                   [opened EXCEPT !.counter = counter_update(@, text), !.logical = @ \o text,
                                  !.data_frames = @ + 1]
              [] OTHER -> [opened EXCEPT !.final = text]
    BY <1>5 DEF decode_frame, Refused
  <2> HIDE DEF opened
  <2>3. /\ frame.kind = Manifest => d = opened
        /\ frame.kind = Data =>
             d = [opened EXCEPT !.counter = counter_update(@, text), !.logical = @ \o text,
                                !.data_frames = @ + 1]
        /\ frame.kind \notin {Manifest, Data} => d = [opened EXCEPT !.final = text]
    BY <1>1, <2>2
  <2>4. /\ frame.kind = Manifest =>
             d = Reader(r.sequence + 1, r.counter, r.logical, r.data_frames, r.final, FALSE)
        /\ frame.kind = Data =>
             d = Reader(r.sequence + 1, counter_update(r.counter, text), r.logical \o text,
                        r.data_frames + 1, r.final, FALSE)
        /\ frame.kind \notin {Manifest, Data} =>
             d = Reader(r.sequence + 1, r.counter, r.logical, r.data_frames, text, FALSE)
    <3>1. Changes(opened, r.sequence + 1, r.counter, r.logical, r.data_frames, r.final, FALSE)
      BY <1>3, <2>1, ReaderFields
    <3> QED
      BY <1>3, <2>1, <2>3, <3>1 DEF Changes
  <2>5. ASSUME NEW c, NEW l, NEW n, NEW f, d = Reader(r.sequence + 1, c, l, n, f, FALSE)
        PROVE  IsReader(d) /\ d.sequence = r.sequence + 1 /\ d.failed = FALSE
    <3>1. /\ d.sequence = r.sequence + 1 /\ d.counter = c /\ d.logical = l
          /\ d.data_frames = n /\ d.final = f /\ d.failed = FALSE
      <4>1. Changes(d, r.sequence + 1, c, l, n, f, FALSE)
        BY <2>5, ReaderFields
      <4> QED
        BY <4>1 DEF Changes
    <3> QED
      BY <1>2, <2>5, <3>1 DEF IsReader
  <2> QED
    BY <1>5, <2>4, <2>5 DEF Reads
<1> QED
  BY <1>4, <1>5

LEMMA StartIsReader == IsReader(ReaderStart) /\ ReaderStart = Reader(0, counter_new, << >>, 0, << >>, FALSE)
<1>1. ReaderStart = Reader(0, counter_new, << >>, 0, << >>, FALSE)
  BY DEF ReaderStart, Reader
<1>2. Changes(ReaderStart, 0, counter_new, << >>, 0, << >>, FALSE)
  BY <1>1, ReaderFields
<1>3. /\ ReaderStart.sequence = 0 /\ ReaderStart.counter = counter_new /\ ReaderStart.logical = << >>
      /\ ReaderStart.data_frames = 0 /\ ReaderStart.final = << >> /\ ReaderStart.failed = FALSE
  BY <1>2 DEF Changes
<1> QED
  BY <1>1, <1>3, 0 \in Nat, FALSE \in BOOLEAN DEF IsReader

\* If the last state has not failed, every frame was read, and in its place.
AllRead(a, s, N, after) ==
    /\ after[0] = ReaderStart
    /\ \A n \in 0..N : IsReader(after[n])
    /\ \A n \in 1..N : after[n] = decode_frame(a, after[n - 1], s[n])
    /\ ~after[N].failed =>
         \A n \in 1..N : ~Refused(a, after[n - 1], s[n]) /\ after[n - 1].sequence = n - 1

LEMMA FramesRead ==
    ASSUME NEW a, NEW s, NEW N \in Nat, NEW after, OverFrames(after, a, s, N)
    PROVE  AllRead(a, s, N, after)
<1>1. /\ after[0] = ReaderStart
      /\ \A n \in 1..N : after[n] = decode_frame(a, after[n - 1], s[n])
  BY DEF OverFrames
<1> DEFINE Bad(n) == \E j \in 1..n : Refused(a, after[j - 1], s[j])
           P == {n \in 0..N : /\ IsReader(after[n])
                              /\ Bad(n) => after[n].failed
                              /\ ~Bad(n) => after[n].sequence = n}
<1>2. 0 \in P
  <2>1. 0 \in 0..N /\ 1..0 = {}
    BY SMTT(60)
  <2>2. ReaderStart.sequence = 0
    BY DEF ReaderStart
  <2> QED
    BY <1>1, <2>1, <2>2, StartIsReader
<1>3. ASSUME NEW k \in 0..N, k \in P, k + 1 <= N PROVE k + 1 \in P
  <2> DEFINE r == after[k]
             d == after[k + 1]
  <2>1. k + 1 \in 1..N /\ (k + 1) - 1 = k /\ k + 1 \in 0..N
    BY <1>3, SMTT(60)
  <2>2. \A j : j \in 1..(k + 1) <=> j \in 1..k \/ j = k + 1
    BY SMTT(60)
  <2>3. d = decode_frame(a, r, s[k + 1])
    BY <1>1, <2>1
  <2>4. Bad(k + 1) <=> Bad(k) \/ Refused(a, r, s[k + 1])
    BY <2>1, <2>2
  <2>5. /\ IsReader(d) /\ (d.failed <=> Refused(a, r, s[k + 1]))
        /\ ~Refused(a, r, s[k + 1]) => d.sequence = r.sequence + 1
    <3>1. IsReader(r)
      BY <1>3
    <3> HIDE DEF r, d
    <3>2. Reads(a, r, s[k + 1], d)
      BY <2>3, <3>1, FrameRead
    <3> QED
      BY <3>2 DEF Reads
  <2>6. Bad(k) => Refused(a, r, s[k + 1])
    BY <1>3 DEF Refused
  <2> HIDE DEF Bad
  <2> QED
    BY <1>3, <2>1, <2>4, <2>5, <2>6
<1>4. 0..N \subseteq P
  <2> HIDE DEF P
  <2> QED
    BY <1>2, <1>3, Upwards
<1>5. \A n \in 0..N : IsReader(after[n])
  BY <1>4
<1>6. ASSUME ~after[N].failed, NEW n \in 1..N
      PROVE  ~Refused(a, after[n - 1], s[n]) /\ after[n - 1].sequence = n - 1
  <2>1. N \in 0..N /\ n - 1 \in 0..N /\ \A j \in 1..(n - 1) : j \in 1..N
    BY SMTT(60)
  <2>2. ~Bad(N)
    BY <1>4, <1>6, <2>1
  <2>3. ~Bad(n - 1)
    BY <2>1, <2>2
  <2> QED
    BY <1>4, <2>1, <2>2, <2>3
<1> QED
  BY <1>1, <1>5, <1>6 DEF AllRead

\* What is accepted: every frame is intact, in its place and of this archive, and the
\* last one is the final frame.
LEMMA AcceptedFrames ==
    ASSUME NEW file, NEW key, NEW N \in Nat, N = Len(file.frames), decode_archive(file, key).ok
    PROVE  /\ file.wrapped_for = key /\ ~file.trailing
           /\ N \in 1..N
           /\ \A n \in 1..N : read_frame(file.archive_id, n - 1, file.frames[n])
           /\ file.frames[N].kind \notin {Manifest, Data}
<1> DEFINE a == file.archive_id
           s == file.frames
<1>1. PICK after : OverFrames(after, a, s, N) /\ decode_archive(file, key) = Verdict(file, key, after[N])
  BY LoopFrames
<1>2. /\ file.wrapped_for = key /\ ~file.trailing
      /\ ~after[N].failed /\ after[N].final # << >>
  <2> DEFINE r == after[N]
             good == /\ file.wrapped_for = key
                     /\ ~r.failed /\ r.final # << >> /\ ~file.trailing
                     /\ counter_finishes(r.counter)
                     /\ r.final = <<r.counter.records, Len(r.logical), r.logical, r.data_frames>>
             logical == r.logical
             records == r.counter.records
  <2>1. decode_archive(file, key) = [ok |-> good, logical |-> logical, records |-> records]
    BY <1>1 DEF Verdict
  <2> HIDE DEF good, logical, records
  <2>2. good
    BY <2>1, SMTT(60)
  <2> QED
    BY <2>2 DEF good
<1> HIDE DEF a, s
<1>3. /\ after[0] = ReaderStart
      /\ \A n \in 0..N : IsReader(after[n])
      /\ \A n \in 1..N : after[n] = decode_frame(a, after[n - 1], s[n])
      /\ \A n \in 1..N : ~Refused(a, after[n - 1], s[n]) /\ after[n - 1].sequence = n - 1
  <2>1. AllRead(a, s, N, after)
    BY <1>1, FramesRead
  <2> QED
    BY <1>2, <2>1 DEF AllRead
<1>4. N \in 1..N
  <2>1. after[0].final = << >>
    BY <1>3, SMTT(60) DEF ReaderStart
  <2>2. N # 0
    BY <1>2, <2>1
  <2> QED
    BY <2>2, SMTT(60)
<1>5. \A n \in 1..N : read_frame(a, n - 1, s[n])
  BY <1>3 DEF Refused
<1>6. s[N].kind \notin {Manifest, Data}
  <2> DEFINE r == after[N - 1]
             d == after[N]
             text == s[N].sealed.plaintext
  <2>1. N - 1 \in 0..N
    BY <1>4, SMTT(60)
  <2>2. IsReader(r) /\ d = decode_frame(a, r, s[N]) /\ ~Refused(a, r, s[N])
    BY <1>3, <1>4, <2>1
  <2>3. r.final = << >>
    BY <2>2 DEF Refused
  <2> HIDE DEF r, d, text
  <2>4. /\ s[N].kind = Manifest =>
             d = Reader(r.sequence + 1, r.counter, r.logical, r.data_frames, r.final, FALSE)
        /\ s[N].kind = Data =>
             d = Reader(r.sequence + 1, counter_update(r.counter, text), r.logical \o text,
                        r.data_frames + 1, r.final, FALSE)
    <3>1. Reads(a, r, s[N], d)
      BY <2>2, FrameRead
    <3> QED
      BY <2>2, <3>1 DEF Reads, text
  <2>5. ASSUME NEW q, NEW c, NEW l, NEW m, d = Reader(q, c, l, m, r.final, FALSE) PROVE FALSE
    <3>1. Changes(d, q, c, l, m, r.final, FALSE)
      BY <2>5, ReaderFields
    <3> QED
      BY <1>2, <2>3, <3>1 DEF Changes, d
  <2> QED
    BY <2>4, <2>5
<1> QED
  BY <1>2, <1>4, <1>5, <1>6 DEF a, s

-----------------------------------------------------------------------------
(* What write_archive writes.                                              *)

LEMMA Division ==
    ASSUME NEW x \in Nat, NEW b \in Nat \ {0}
    PROVE  /\ x \div b \in Nat /\ b * (x \div b) <= x /\ x < b * (x \div b) + b
  BY SMTT(60)

\* Where the k-th chunk ends.
End(k, b, L) == IF k * b < L THEN k * b ELSE L

\* The chunks are as many as it takes, and each begins where the one before it ends.
LEMMA ChunkEnds ==
    ASSUME NEW L \in Nat, NEW b \in Nat \ {0}, NEW m, m = (L + b - 1) \div b
    PROVE  /\ m \in Nat /\ End(0, b, L) = 0 /\ End(m, b, L) = L
           /\ \A k \in 1..m : /\ End(k - 1, b, L) = (k - 1) * b /\ End(k - 1, b, L) \in Nat
                              /\ End(k, b, L) \in Nat
                              /\ End(k - 1, b, L) <= End(k, b, L) /\ End(k, b, L) <= L
<1>1. L + b - 1 \in Nat
  BY SMTT(60)
<1>2. m \in Nat /\ b * m <= L + b - 1 /\ L + b - 1 < b * m + b
  BY <1>1, Division
<1>3. b * m = m * b /\ b * m \in Nat /\ L <= m * b
  BY <1>2, SMTT(60)
<1>4. End(0, b, L) = 0 /\ End(m, b, L) = L
  BY <1>2, <1>3, SMTT(60) DEF End
<1>5. ASSUME NEW k \in 1..m
      PROVE  /\ (k - 1) * b < L /\ (k - 1) * b \in Nat /\ k * b \in Nat /\ (k - 1) * b <= k * b
  <2>1. k * b <= m * b /\ k * b \in Nat
    BY <1>2, SMTT(60)
  <2>2. (k - 1) * b = k * b - b /\ (k - 1) * b \in Nat
    BY SMTT(60)
  <2> QED
    BY <1>2, <1>3, <2>1, <2>2, SMTT(60)
<1>6. ASSUME NEW k \in 1..m
      PROVE  /\ End(k - 1, b, L) = (k - 1) * b /\ End(k - 1, b, L) \in Nat
             /\ End(k, b, L) \in Nat
             /\ End(k - 1, b, L) <= End(k, b, L) /\ End(k, b, L) <= L
  <2> DEFINE u == (k - 1) * b
             v == k * b
  <2>1. u < L /\ u \in Nat /\ v \in Nat /\ u <= v
    BY <1>5
  <2>2. End(k - 1, b, L) = (IF u < L THEN u ELSE L) /\ End(k, b, L) = (IF v < L THEN v ELSE L)
    BY DEF End
  <2> HIDE DEF u, v
  <2>3. /\ End(k - 1, b, L) = u /\ End(k - 1, b, L) \in Nat
        /\ End(k, b, L) \in Nat
        /\ End(k - 1, b, L) <= End(k, b, L) /\ End(k, b, L) <= L
    BY <2>1, <2>2, SMTT(60)
  <2> QED
    BY <2>3 DEF u
<1> QED
  BY <1>2, <1>4, <1>6

\* The chunks of a stream.
Chunked(s, b, m, chunks) ==
    /\ m = (Len(s) + b - 1) \div b /\ m \in Nat /\ Len(chunks) = m
    /\ chunks = [k \in 1..m |-> SubSeq(s, End(k - 1, b, Len(s)) + 1, End(k, b, Len(s)))]

LEMMA StreamChunks ==
    ASSUME NEW s \in Seq(Nat), NEW b \in Nat \ {0}, NEW chunks, chunks = Chunks(s, b)
    PROVE  \E m : Chunked(s, b, m, chunks)
<1> DEFINE m == (Len(s) + b - 1) \div b
           L == Len(s)
<1>1. L \in Nat
  BY SMTT(60)
<1>2. /\ m \in Nat /\ \A k \in 1..m : End(k - 1, b, L) = (k - 1) * b
  BY <1>1, ChunkEnds, SMTT(60)
<1>3. chunks = [k \in 1..m |-> SubSeq(s, (k - 1) * b + 1, End(k, b, L))]
  BY DEF Chunks, End
<1> HIDE DEF m, L
<1>4. chunks = [k \in 1..m |-> SubSeq(s, End(k - 1, b, L) + 1, End(k, b, L))]
  BY <1>2, <1>3
<1>5. Len(chunks) = m
  BY <1>2, <1>3, SMTT(60)
<1> QED
  BY <1>2, <1>4, <1>5 DEF Chunked, m, L

\* What is written: the manifest, the chunks and the final frame, each in its place.
Written(file, a, key, s, b, m, chunks) ==
    /\ file.archive_id = a /\ file.wrapped_for = key /\ file.trailing = FALSE
    /\ file = [archive_id |-> a, wrapped_for |-> key, trailing |-> FALSE, frames |-> file.frames]
    /\ Chunked(s, b, m, chunks)
    /\ file.frames = [n \in 1..(m + 2) |-> file.frames[n]] /\ Len(file.frames) = m + 2
    /\ file.frames[1] = write_frame(a, 0, Manifest, << >>)
    /\ \A k \in 1..m : file.frames[k + 1] = write_frame(a, k, Data, chunks[k])
    /\ file.frames[m + 2] =
         write_frame(a, m + 1, Final,
                     <<Fold(counter_update, counter_new, chunks).records, Len(s), s, m>>)

\* Where the parts of a concatenation are.
Parts(w, x, mid, z, m) ==
    /\ w = [n \in 1..(m + 2) |-> w[n]] /\ Len(w) = m + 2
    /\ w[1] = x /\ w[m + 2] = z
    /\ \A k \in 1..m : w[k + 1] = mid[k]

LEMMA SecondPart ==
    ASSUME NEW S, NEW h \in Seq(S), NEW g \in Seq(S)
    PROVE  \A k \in 1..Len(g) : (h \o g)[Len(h) + k] = g[k]
  BY SMTT(60)

LEMMA ThreeParts ==
    ASSUME NEW m \in Nat, NEW x, NEW mid, mid = [k \in 1..m |-> mid[k]], NEW z
    PROVE  Parts(<<x>> \o mid \o <<z>>, x, mid, z, m)
<1> DEFINE S == {x, z} \union {mid[k] : k \in 1..m}
           w == <<x>> \o mid \o <<z>>
           h == <<x>> \o mid
<1>1. x \in S /\ z \in S /\ mid \in [1..m -> S]
  <2>1. \A k \in 1..m : mid[k] \in S
    OBVIOUS
  <2> QED
    BY <2>1
<1> HIDE DEF S
<1>2. h \in Seq(S) /\ Len(h) = m + 1 /\ h[1] = x /\ \A k \in 1..m : h[k + 1] = mid[k]
  <2>1. mid \in Seq(S) /\ Len(mid) = m
    BY <1>1, SMTT(60)
  <2> QED
    BY <1>1, <2>1, SMTT(60)
<1>3. w = h \o <<z>>
  OBVIOUS
<1> HIDE DEF h, w
<1>4. w \in Seq(S) /\ Len(w) = m + 2
  BY <1>1, <1>2, <1>3, SMTT(60)
<1>5. w[m + 2] = z
  <2> DEFINE g == <<z>>
  <2>1. g \in Seq(S) /\ Len(g) = 1 /\ g[1] = z
    BY <1>1, SMTT(60)
  <2>2. w = h \o g
    BY <1>3
  <2> HIDE DEF g
  <2>3. \A k \in 1..Len(g) : w[Len(h) + k] = g[k]
    <3>1. h \in Seq(S) /\ g \in Seq(S)
      BY <1>2, <2>1
    <3>2. \A k \in 1..Len(g) : (h \o g)[Len(h) + k] = g[k]
      BY <3>1, SecondPart
    <3> QED
      BY <2>2, <3>2
  <2>4. 1 \in 1..Len(g) /\ Len(h) + 1 = m + 2
    BY <1>2, <2>1, SMTT(60)
  <2> QED
    BY <2>1, <2>3, <2>4
<1>6. \A k \in 1..(m + 1) : w[k] = h[k]
  BY <1>1, <1>2, <1>3, SMTT(60)
<1>7. w = [n \in 1..(m + 2) |-> w[n]]
  BY <1>4, SMTT(60)
<1>8. 1 \in 1..(m + 1) /\ \A k \in 1..m : k + 1 \in 1..(m + 1)
  BY SMTT(60)
<1>9. Parts(w, x, mid, z, m)
  BY <1>2, <1>4, <1>5, <1>6, <1>7, <1>8 DEF Parts
<1> QED
  BY <1>9 DEF w

LEMMA WriteFacts ==
    ASSUME NEW a, NEW key, NEW s \in Seq(Nat), NEW b \in Nat \ {0}, NEW file,
           file = write_archive(a, key, s, b)
    PROVE  \E m : Written(file, a, key, s, b, m, Chunks(s, b))
<1> DEFINE chunks == Chunks(s, b)
<1>1. PICK m : Chunked(s, b, m, chunks)
  BY StreamChunks
<1> HIDE DEF chunks
<1> DEFINE counter == Fold(counter_update, counter_new, chunks)
           first == write_frame(a, 0, Manifest, << >>)
           mid == [k \in 1..m |-> write_frame(a, k, Data, chunks[k])]
           last == write_frame(a, m + 1, Final, <<counter.records, Len(s), s, m>>)
           frames == <<first>> \o mid \o <<last>>
<1>2. Len(chunks) = m /\ m \in Nat
  BY <1>1 DEF Chunked
<1>3. file = [archive_id |-> a, wrapped_for |-> key, trailing |-> FALSE, frames |-> frames]
  BY <1>2 DEF write_archive, chunks
<1>4. \A k \in 1..m : mid[k] = write_frame(a, k, Data, chunks[k])
  OBVIOUS
<1>5. mid = [k \in 1..m |-> mid[k]]
  OBVIOUS
<1> HIDE DEF mid, first, last
<1>6. Parts(frames, first, mid, last, m)
  BY <1>2, <1>5, ThreeParts
<1> HIDE DEF frames
<1>7. file.archive_id = a /\ file.wrapped_for = key /\ file.trailing = FALSE /\ file.frames = frames
  BY <1>3, SMTT(60)
<1> QED
  BY <1>1, <1>2, <1>3, <1>4, <1>6, <1>7 DEF Written, Parts, chunks, first, last

-----------------------------------------------------------------------------
(* Damage shows.                                                           *)

\* The fields of a frame.
Framed(f, a, q, kind, text) ==
    /\ f.sequence = q /\ f.kind = kind
    /\ f = [sequence |-> q, kind |-> kind, sealed |-> f.sealed]
    /\ f.sealed = [archive |-> a, sequence |-> q, kind |-> kind, plaintext |-> text, intact |-> TRUE]
    /\ f.sealed.archive = a /\ f.sealed.sequence = q /\ f.sealed.kind = kind
    /\ f.sealed.plaintext = text /\ f.sealed.intact = TRUE

LEMMA FrameFields ==
    ASSUME NEW a, NEW q, NEW kind, NEW text, NEW f, f = write_frame(a, q, kind, text)
    PROVE  Framed(f, a, q, kind, text)
<1>1. /\ f.sequence = q /\ f.kind = kind
      /\ f = [sequence |-> q, kind |-> kind, sealed |-> f.sealed]
      /\ f.sealed = [archive |-> a, sequence |-> q, kind |-> kind, plaintext |-> text, intact |-> TRUE]
  BY DEF write_frame
<1> QED
  BY <1>1, SMTT(60) DEF Framed

\* The frames of an archive: each knows its place and its archive, and only the last
\* one is final.
Numbered(F, a, n) ==
    /\ n \in Nat /\ n - 1 \in 1..n /\ Len(F) = n /\ \E S : F \in Seq(S)
    /\ \A k \in 1..n : \E kind, text : Framed(F[k], a, k - 1, kind, text)
    /\ \A k \in 1..(n - 1) : F[k].kind \in {Manifest, Data}

LEMMA WrittenNumbered ==
    ASSUME NEW file, NEW a, NEW key, NEW s, NEW b, NEW m, NEW chunks,
           Written(file, a, key, s, b, m, chunks)
    PROVE  Numbered(file.frames, a, m + 2)
<1> DEFINE F == file.frames
           n == m + 2
           Is(frame, k) == \E kind, text : Framed(frame, a, k - 1, kind, text)
<1>1. m \in Nat
  BY DEF Written, Chunked
<1>2. /\ F[1] = write_frame(a, 0, Manifest, << >>)
      /\ \A k \in 1..m : F[k + 1] = write_frame(a, k, Data, chunks[k])
      /\ \E text : F[n] = write_frame(a, m + 1, Final, text)
      /\ Len(F) = n /\ F = [k \in 1..n |-> F[k]]
  BY DEF Written
<1>3. \A k \in 1..n : k = 1 \/ k = n \/ (k - 1 \in 1..m /\ k - 1 + 1 = k)
  BY <1>1, SMTT(60)
<1>4. n \in Nat /\ n - 1 \in 1..n /\ 0 = 1 - 1 /\ m + 1 = n - 1 /\ (\A k \in 1..(n - 1) : k # n /\ k \in 1..n)
  BY <1>1, SMTT(60)
<1>5. F \in Seq({F[k] : k \in 1..n})
  <2> DEFINE S == {F[k] : k \in 1..n}
  <2>1. F \in [1..n -> S]
    BY <1>2
  <2> HIDE DEF S, F, n
  <2> QED
    BY <1>4, <2>1, SMTT(60)
<1> HIDE DEF F, n
<1>6. ASSUME NEW k \in 1..n PROVE Is(F[k], k) /\ (k # n => F[k].kind \in {Manifest, Data})
  <2>1. CASE k = 1
    <3>1. Framed(F[1], a, 0, Manifest, << >>)
      BY <1>2, FrameFields
    <3> QED
      BY <1>4, <2>1, <3>1 DEF Framed
  <2>2. CASE k = n
    <3>1. \E text : Framed(F[n], a, m + 1, Final, text)
      BY <1>2, FrameFields
    <3> QED
      BY <1>4, <2>2, <3>1
  <2>3. CASE k - 1 \in 1..m /\ k - 1 + 1 = k
    <3>1. F[k] = write_frame(a, k - 1, Data, chunks[k - 1])
      BY <1>2, <2>3
    <3>2. Framed(F[k], a, k - 1, Data, chunks[k - 1])
      BY <3>1, FrameFields
    <3> QED
      BY <3>2 DEF Framed
  <2> QED
    BY <1>3, <2>1, <2>2, <2>3
<1>7. Numbered(F, a, n)
  BY <1>2, <1>4, <1>5, <1>6 DEF Numbered
<1> QED
  BY <1>7 DEF F, n

\* What AcceptedFrames says of the frames.
Accepted(G, a) ==
    /\ Len(G) \in 1..Len(G)
    /\ \A n \in 1..Len(G) : read_frame(a, n - 1, G[n])
    /\ G[Len(G)].kind \notin {Manifest, Data}

\* A frame that is not in its place is not read.
LEMMA Misplaced ==
    ASSUME NEW F, NEW a, NEW n, Numbered(F, a, n), NEW G, NEW j \in 1..Len(G), NEW k \in 1..n,
           G[j] = F[k], j # k
    PROVE  ~Accepted(G, a)
<1>1. F[k].sequence = k - 1
  BY DEF Numbered, Framed
<1>2. k \in Int /\ j \in Int
  BY SMTT(60) DEF Numbered
<1>3. k - 1 # j - 1
  BY <1>2, SMTT(60)
<1> QED
  BY <1>1, <1>3 DEF Accepted, read_frame

\* Frames that do not end with the final one are not an archive.
LEMMA Unfinished ==
    ASSUME NEW F, NEW a, NEW n, Numbered(F, a, n), NEW G, NEW k \in 1..(n - 1), G[Len(G)] = F[k]
    PROVE  ~Accepted(G, a)
  BY DEF Accepted, Numbered

\* The frames of a damaged file, as Damaged makes them.
Lost(F, k) == SubSeq(F, 1, k - 1) \o SubSeq(F, k + 1, Len(F))
Twice(F, k) == SubSeq(F, 1, k) \o SubSeq(F, k, Len(F))

LEMMA LostFrames ==
    ASSUME NEW S, NEW F \in Seq(S), NEW k \in 1..Len(F)
    PROVE  /\ Lost(F, k) \in Seq(S) /\ Len(Lost(F, k)) = Len(F) - 1
           /\ k < Len(F) => Lost(F, k)[k] = F[k + 1]
           /\ k = Len(F) /\ k > 1 => Lost(F, k)[k - 1] = F[k - 1]
<1> DEFINE u == SubSeq(F, 1, k - 1)
           v == SubSeq(F, k + 1, Len(F))
<1>1. u \in Seq(S) /\ Len(u) = k - 1 /\ \A i \in 1..(k - 1) : u[i] = F[i]
  BY SMTT(60)
<1>2. v \in Seq(S) /\ Len(v) = Len(F) - k /\ (k < Len(F) => v[1] = F[k + 1])
  BY SMTT(60)
<1>3. Lost(F, k) = u \o v
  BY DEF Lost
<1> HIDE DEF u, v
<1>4. /\ u \o v \in Seq(S) /\ Len(u \o v) = Len(F) - 1
  BY <1>1, <1>2, SMTT(60)
<1>5. ASSUME k < Len(F) PROVE (u \o v)[k] = F[k + 1]
  <2>1. Len(u) + 1 = k /\ 1 \in 1..Len(v)
    BY <1>1, <1>2, <1>5, SMTT(60)
  <2>2. \A i \in 1..Len(v) : (u \o v)[Len(u) + i] = v[i]
    BY <1>1, <1>2, SecondPart, SMTT(60)
  <2> QED
    BY <1>2, <1>5, <2>1, <2>2
<1>6. ASSUME k = Len(F), k > 1 PROVE (u \o v)[k - 1] = F[k - 1]
  <2>1. k - 1 \in 1..Len(u) /\ k - 1 \in 1..(k - 1)
    BY <1>1, <1>6, SMTT(60)
  <2>2. \A i \in 1..Len(u) : (u \o v)[i] = u[i]
    BY <1>1, <1>2, SMTT(60)
  <2> QED
    BY <1>1, <2>1, <2>2
<1> QED
  BY <1>3, <1>4, <1>5, <1>6

LEMMA TwiceFrames ==
    ASSUME NEW S, NEW F \in Seq(S), NEW k \in 1..Len(F)
    PROVE  Len(Twice(F, k)) = Len(F) + 1 /\ Twice(F, k)[k + 1] = F[k]
<1> DEFINE u == SubSeq(F, 1, k)
           v == SubSeq(F, k, Len(F))
<1>1. u \in Seq(S) /\ Len(u) = k
  BY SMTT(60)
<1>2. v \in Seq(S) /\ Len(v) = Len(F) - k + 1 /\ v[1] = F[k]
  BY SMTT(60)
<1>3. Twice(F, k) = u \o v
  BY DEF Twice
<1> HIDE DEF u, v
<1>4. Len(u \o v) = Len(F) + 1
  BY <1>1, <1>2, SMTT(60)
<1>5. 1 \in 1..Len(v)
  BY <1>2, SMTT(60)
<1>6. \A i \in 1..Len(v) : (u \o v)[Len(u) + i] = v[i]
  BY <1>1, <1>2, SecondPart
<1> QED
  BY <1>1, <1>2, <1>3, <1>4, <1>5, <1>6

Altered(F, k) == [F EXCEPT ![k].sealed.intact = FALSE]
Renumbered(F, k) == [Lost(F, k) EXCEPT ![k].sequence = k - 1]

\* The altered frame does not open.
LEMMA AlteredShows ==
    ASSUME NEW F, NEW a, NEW n, Numbered(F, a, n), NEW k \in 1..n
    PROVE  Len(Altered(F, k)) = n /\ ~Accepted(Altered(F, k), a)
<1> DEFINE f == F[k]
           z == [f.sealed EXCEPT !.intact = FALSE]
           g == [f EXCEPT !.sealed = z]
<1>1. PICK kind, text : Framed(f, a, k - 1, kind, text)
  BY DEF Numbered
<1>2. PICK S : F \in Seq(S)
  BY DEF Numbered
<1>3. Len(F) = n /\ n \in Nat /\ DOMAIN F = 1..n
  BY <1>2, SMTT(60) DEF Numbered
<1>4. Altered(F, k) = [F EXCEPT ![k] = g]
  BY DEF Altered
<1>5. z.intact = FALSE
  BY <1>1 DEF Framed
<1> HIDE DEF z
<1>6. g.sealed = z
  BY <1>1 DEF Framed
<1> HIDE DEF f, g
<1>7. Len([F EXCEPT ![k] = g]) = n /\ [F EXCEPT ![k] = g][k] = g
  BY <1>2, <1>3, SMTT(60)
<1> QED
  BY <1>4, <1>5, <1>6, <1>7 DEF Accepted, read_frame

\* The next frame with the lost one's number does not open: its number is sealed.
LEMMA RenumberedShows ==
    ASSUME NEW F, NEW a, NEW n, Numbered(F, a, n), NEW k \in 1..(n - 1)
    PROVE  Len(Renumbered(F, k)) = n - 1 /\ ~Accepted(Renumbered(F, k), a)
<1> DEFINE f == F[k + 1]
           L == Lost(F, k)
           g == [f EXCEPT !.sequence = k - 1]
<1>1. /\ k + 1 \in 1..n /\ k \in 1..n /\ k < n /\ n \in Nat /\ Len(F) = n /\ (k + 1) - 1 = k
      /\ n - 1 \in Nat /\ k # k - 1
  BY SMTT(60) DEF Numbered
<1>2. PICK kind, text : Framed(f, a, k, kind, text)
  BY <1>1 DEF Numbered
<1>3. PICK S : F \in Seq(S)
  BY DEF Numbered
<1>4. L \in Seq(S) /\ Len(L) = n - 1 /\ L[k] = f
  BY <1>1, <1>3, LostFrames
<1> HIDE DEF L
<1>5. Renumbered(F, k) = [L EXCEPT ![k] = g]
  BY <1>4 DEF Renumbered, L
<1>6. g.sequence = k - 1 /\ g.sealed = f.sealed /\ f.sealed.sequence = k
  BY <1>2 DEF Framed
<1> HIDE DEF f, g
<1>7. Len([L EXCEPT ![k] = g]) = n - 1 /\ [L EXCEPT ![k] = g][k] = g
  BY <1>1, <1>4, SMTT(60)
<1>8. ~read_frame(a, k - 1, g)
  BY <1>1, <1>6 DEF read_frame
<1> QED
  BY <1>5, <1>7, <1>8 DEF Accepted

Broken(F) ==
    LET n == Len(F)
    IN {SubSeq(F, 1, k) : k \in 0..n - 1}
       \union {Lost(F, k) : k \in 1..n}
       \union {Twice(F, k) : k \in 1..n}
       \union {Exchanged(F, 1, k) : k \in 2..n}
       \union {Altered(F, k) : k \in 1..n}
       \union {Renumbered(F, k) : k \in 1..n - 1}

\* Whatever was lost, repeated, exchanged, renumbered, cut short or altered is noticed.
LEMMA DamageShows ==
    ASSUME NEW F, NEW a, NEW n, Numbered(F, a, n), NEW G \in Broken(F)
    PROVE  Len(G) \in Nat /\ ~Accepted(G, a)
<1>1. PICK S : F \in Seq(S)
  BY DEF Numbered
<1>2. Len(F) = n /\ n \in Nat /\ n - 1 \in 1..n
  BY DEF Numbered
<1>3. ASSUME NEW k \in 0..(n - 1), G = SubSeq(F, 1, k) PROVE Len(G) \in Nat /\ ~Accepted(G, a)
  <2>1. Len(G) = k /\ k \in Nat /\ (k # 0 => k \in 1..(n - 1) /\ G[k] = F[k])
    BY <1>1, <1>2, <1>3, SMTT(60)
  <2>2. CASE k = 0
    <3>1. 0 \notin 1..0
      BY SMTT(60)
    <3> QED
      BY <2>1, <2>2, <3>1 DEF Accepted
  <2>3. CASE k # 0
    BY <2>1, <2>3, Unfinished
  <2> QED
    BY <2>2, <2>3
<1>4. ASSUME NEW k \in 1..n, G = Lost(F, k) PROVE Len(G) \in Nat /\ ~Accepted(G, a)
  <2>1. /\ Len(G) = n - 1
        /\ k < n => G[k] = F[k + 1]
        /\ k = n /\ k > 1 => G[k - 1] = F[k - 1]
    BY <1>1, <1>2, <1>4, LostFrames
  <2>2. CASE k < n
    <3>1. k \in 1..(n - 1) /\ k + 1 \in 1..n /\ k # k + 1 /\ n - 1 \in Nat
      BY <1>2, <2>2, SMTT(60)
    <3> QED
      BY <2>1, <2>2, <3>1, Misplaced
  <2>3. CASE ~(k < n)
    <3>1. k = n /\ k > 1 /\ n - 1 \in 1..(n - 1) /\ n - 1 \in Nat
      BY <1>2, <2>3, SMTT(60)
    <3>2. G[Len(G)] = F[n - 1]
      BY <2>1, <3>1
    <3> QED
      BY <2>1, <3>1, <3>2, Unfinished
  <2> QED
    BY <2>2, <2>3
<1>5. ASSUME NEW k \in 1..n, G = Twice(F, k) PROVE Len(G) \in Nat /\ ~Accepted(G, a)
  <2>1. Len(G) = n + 1 /\ G[k + 1] = F[k]
    BY <1>1, <1>2, <1>5, TwiceFrames
  <2>2. n + 1 \in Nat /\ k + 1 \in 1..(n + 1) /\ k + 1 # k
    BY <1>2, SMTT(60)
  <2> QED
    BY <2>1, <2>2, Misplaced
<1>6. ASSUME NEW k \in 2..n, G = Exchanged(F, 1, k) PROVE Len(G) \in Nat /\ ~Accepted(G, a)
  <2>1. 1 \in 1..n /\ k \in 1..n /\ 1 # k
    BY <1>2, SMTT(60)
  <2>2. Len(G) = n /\ G[1] = F[k]
    BY <1>1, <1>2, <1>6, <2>1, SMTT(60) DEF Exchanged
  <2> QED
    BY <1>2, <2>1, <2>2, Misplaced
<1>7. ASSUME NEW k \in 1..n, G = Altered(F, k) PROVE Len(G) \in Nat /\ ~Accepted(G, a)
  BY <1>2, <1>7, AlteredShows
<1>8. ASSUME NEW k \in 1..n - 1, G = Renumbered(F, k) PROVE Len(G) \in Nat /\ ~Accepted(G, a)
  <2>1. n - 1 \in Nat
    BY <1>2, SMTT(60)
  <2> QED
    BY <1>8, <2>1, RenumberedShows
<1> QED
  BY <1>2, <1>3, <1>4, <1>5, <1>6, <1>7, <1>8 DEF Broken

LEMMA FileFacts ==
    ASSUME NEW f \in Files
    PROVE  \E a \in Archive, b \in ChunkSizes : \E m :
              Written(f, a, Key, Stream[a], b, m, Chunks(Stream[a], b))
<1>1. PICK a \in Archive, b \in ChunkSizes : f = write_archive(a, Key, Stream[a], b)
  BY SMTT(60) DEF Files
<1>2. Stream[a] \in Seq(Nat) /\ b \in Nat \ {0}
  BY StreamAssumption, ChannelAssumption
<1> QED
  BY <1>1, <1>2, WriteFacts

\* What can become of a file, in terms of its frames.
LEMMA DamageIs ==
    ASSUME NEW f, NEW g, NEW d \in Damaged(f, g)
    PROVE  \/ \E G \in Broken(f.frames) \union {g.frames} : d = [f EXCEPT !.frames = G]
           \/ d = [f EXCEPT !.trailing = TRUE]
  BY DEF Damaged, Broken, Lost, Twice, Altered, Renumbered

\* Only a file as it was written is accepted, with the key it was written with.
LEMMA OnlyWritten ==
    ASSUME NEW d \in Uploads, NEW key, decode_archive(d, key).ok
    PROVE  d \in Files /\ key = Key
<1>1. ASSUME NEW G, Len(G) \in Nat, d.frames = G
      PROVE  d.wrapped_for = key /\ ~d.trailing /\ Accepted(G, d.archive_id)
  <2> DEFINE N == Len(G)
  <2>1. N = Len(d.frames) /\ N \in Nat
    BY <1>1
  <2> HIDE DEF N
  <2>2. /\ d.wrapped_for = key /\ ~d.trailing
        /\ N \in 1..N
        /\ \A n \in 1..N : read_frame(d.archive_id, n - 1, d.frames[n])
        /\ d.frames[N].kind \notin {Manifest, Data}
    BY <2>1, AcceptedFrames
  <2> QED
    BY <1>1, <2>2 DEF Accepted, N
<1>2. CASE d \in Files
  <2>1. PICK a \in Archive, b \in ChunkSizes : \E m :
           Written(d, a, Key, Stream[a], b, m, Chunks(Stream[a], b))
    BY <1>2, FileFacts
  <2>2. PICK m : Written(d, a, Key, Stream[a], b, m, Chunks(Stream[a], b))
    BY <2>1
  <2>3. d.wrapped_for = Key /\ Numbered(d.frames, a, m + 2)
    <3>1. Numbered(d.frames, a, m + 2)
      BY <2>2, WrittenNumbered
    <3> QED
      BY <2>2, <3>1 DEF Written
  <2>4. Len(d.frames) \in Nat
    BY <2>3 DEF Numbered
  <2> QED
    BY <1>1, <1>2, <2>3, <2>4
<1>3. ASSUME NEW f \in Files, NEW g \in Files, d \in Damaged(f, g)
      PROVE  d \in Files /\ key = Key
  <2>1. PICK a, m : /\ f.archive_id = a /\ f.wrapped_for = Key /\ f.trailing = FALSE
                    /\ f = [archive_id |-> a, wrapped_for |-> Key, trailing |-> FALSE, frames |-> f.frames]
                    /\ Numbered(f.frames, a, m)
    <3>1. PICK a, b, m, s, c : Written(f, a, Key, s, b, m, c)
      BY FileFacts
    <3>2. Numbered(f.frames, a, m + 2)
      BY <3>1, WrittenNumbered
    <3> QED
      BY <3>1, <3>2 DEF Written
  <2>2. PICK c, n : /\ g = [archive_id |-> c, wrapped_for |-> Key, trailing |-> FALSE, frames |-> g.frames]
                    /\ Numbered(g.frames, c, n)
    <3>1. PICK a2, b, n, s, e : Written(g, a2, Key, s, b, n, e)
      BY FileFacts
    <3>2. Numbered(g.frames, a2, n + 2)
      BY <3>1, WrittenNumbered
    <3> QED
      BY <3>1, <3>2 DEF Written
  <2>5. ASSUME NEW G
        PROVE  /\ [f EXCEPT !.frames = G]
                    = [archive_id |-> a, wrapped_for |-> Key, trailing |-> FALSE, frames |-> G]
               /\ [f EXCEPT !.frames = G].archive_id = a
               /\ [f EXCEPT !.frames = G].wrapped_for = Key
               /\ [f EXCEPT !.frames = G].frames = G
    <3> DEFINE F == f.frames
               no == FALSE
    <3>1. f = [archive_id |-> a, wrapped_for |-> Key, trailing |-> no, frames |-> F]
      BY <2>1
    <3> HIDE DEF F, no
    <3>2. [f EXCEPT !.frames = G] = [archive_id |-> a, wrapped_for |-> Key, trailing |-> no, frames |-> G]
      BY <3>1, SMTT(60)
    <3> QED
      BY <3>2 DEF no
  <2>6. ~(d = [f EXCEPT !.trailing = TRUE])
    <3> SUFFICES ASSUME d = [f EXCEPT !.trailing = TRUE] PROVE FALSE
      OBVIOUS
    <3> DEFINE F == f.frames
    <3>1. d.frames = F /\ d.trailing = TRUE
      BY <2>1
    <3>2. Len(F) \in Nat
      BY <2>1 DEF Numbered
    <3> QED
      BY <1>1, <3>1, <3>2
  <2>7. PICK G \in Broken(f.frames) \union {g.frames} : d = [f EXCEPT !.frames = G]
    BY <1>3, <2>6, DamageIs
  <2>8. d.archive_id = a /\ d.wrapped_for = Key /\ d.frames = G
    BY <2>5, <2>7
  <2>9. G \notin Broken(f.frames)
    <3> SUFFICES ASSUME G \in Broken(f.frames) PROVE FALSE
      OBVIOUS
    <3>1. Len(G) \in Nat /\ ~Accepted(G, a)
      BY <2>1, DamageShows
    <3> QED
      BY <1>1, <2>8, <3>1
  <2>10. G = g.frames
    BY <2>9
  <2>11. Len(G) \in Nat
    BY <2>2, <2>10 DEF Numbered
  <2>12. key = Key /\ Accepted(G, a)
    BY <1>1, <2>8, <2>11
  <2>13. a = c
    <3>1. 1 \in 1..n /\ Len(G) = n
      <4>1. n \in Nat /\ n - 1 \in 1..n /\ Len(G) = n
        BY <2>2, <2>10 DEF Numbered
      <4> QED
        BY <4>1, SMTT(60)
    <3>2. G[1].sealed.archive = c
      BY <2>2, <2>10, <3>1 DEF Numbered, Framed
    <3>3. G[1].sealed.archive = a
      BY <2>12, <3>1 DEF Accepted, read_frame
    <3> QED
      BY <3>2, <3>3
  <2> QED
    BY <2>2, <2>5, <2>7, <2>10, <2>12, <2>13
<1> QED
  BY <1>2, <1>3, SMTT(60) DEF Uploads

-----------------------------------------------------------------------------
(* What was written is accepted, whatever the chunks.                      *)

\* The counter does not see where a chunk ends: after the k-th it is where it would be
\* after as many bytes of the stream.
LEMMA CounterAcrossChunks ==
    ASSUME NEW s \in Seq(Nat), NEW b \in Nat \ {0}, NEW m, NEW chunks, Chunked(s, b, m, chunks)
    PROVE  Fold(counter_update, counter_new, chunks) = counter_update(counter_new, s)
<1> DEFINE L == Len(s)
           E(k) == End(k, b, L)
<1>1. L \in Nat /\ m \in Nat /\ m = (L + b - 1) \div b /\ Len(chunks) = m
  BY SMTT(60) DEF Chunked
<1> HIDE DEF L
<1>2. /\ E(0) = 0 /\ E(m) = L
      /\ \A k \in 1..m : E(k - 1) \in Nat /\ E(k) \in Nat /\ E(k - 1) <= E(k) /\ E(k) <= L
  BY <1>1, ChunkEnds
<1>3. \A k \in 1..m : chunks[k] = SubSeq(s, E(k - 1) + 1, E(k))
  BY <1>1 DEF Chunked, L
<1> HIDE DEF E
<1>4. PICK h : /\ h[0] = counter_new /\ counter_update(counter_new, s) = h[L]
               /\ \A n \in 1..L : h[n] = counter_byte(h[n - 1], s[n])
  <2>1. PICK h : OverBytes(h, counter_new, s, L) /\ counter_update(counter_new, s) = h[L]
    BY <1>1, LoopBytes DEF L
  <2> QED
    BY <2>1 DEF OverBytes
<1>5. PICK g : /\ g[0] = counter_new /\ Fold(counter_update, counter_new, chunks) = g[m]
               /\ \A k \in 1..m : g[k] = counter_update(g[k - 1], chunks[k])
  <2>1. PICK g : OverChunks(g, counter_new, chunks, m) /\ Fold(counter_update, counter_new, chunks) = g[m]
    BY <1>1, LoopChunks
  <2> QED
    BY <2>1 DEF OverChunks
<1> DEFINE P == {k \in 0..m : g[k] = h[E(k)]}
<1>6. 0 \in P
  <2>1. 0 \in 0..m
    BY <1>1, SMTT(60)
  <2> QED
    BY <1>2, <1>4, <1>5, <2>1
<1>7. ASSUME NEW k \in 0..m, k \in P, k + 1 <= m PROVE k + 1 \in P
  <2> DEFINE c == chunks[k + 1]
             from == E(k)
             to == E(k + 1)
  <2>1. k + 1 \in 1..m /\ (k + 1) - 1 = k /\ k + 1 \in 0..m
    BY <1>1, <1>7, SMTT(60)
  <2>2. from \in Nat /\ to \in Nat /\ from <= to /\ to <= L /\ c = SubSeq(s, from + 1, to)
    BY <1>2, <1>3, <2>1
  <2> HIDE DEF c, from, to
  <2>3. Len(c) = to - from /\ Len(c) \in Nat /\ \A i \in 1..Len(c) : c[i] = s[from + i]
    BY <1>1, <2>2, SMTT(60) DEF L
  <2>4. PICK x : /\ x[0] = h[from] /\ counter_update(h[from], c) = x[Len(c)]
                 /\ \A i \in 1..Len(c) : x[i] = counter_byte(x[i - 1], c[i])
    <3>1. PICK x : OverBytes(x, h[from], c, Len(c)) /\ counter_update(h[from], c) = x[Len(c)]
      BY <2>3, LoopBytes, SMTT(60)
    <3> QED
      BY <3>1 DEF OverBytes
  <2> DEFINE N == Len(c)
             Q == {i \in 0..N : x[i] = h[from + i]}
  <2>5. N \in Nat /\ N = to - from
    BY <2>3
  <2> HIDE DEF N
  <2>6. 0 \in Q
    <3>1. 0 \in 0..N /\ from + 0 = from
      BY <2>2, <2>5, SMTT(60)
    <3> QED
      BY <2>4, <3>1
  <2>7. ASSUME NEW i \in 0..N, i \in Q, i + 1 <= N PROVE i + 1 \in Q
    <3>1. /\ i + 1 \in 1..N /\ (i + 1) - 1 = i /\ i + 1 \in 0..N
          /\ from + (i + 1) \in 1..L /\ (from + (i + 1)) - 1 = from + i
      BY <1>1, <2>2, <2>5, <2>7, SMTT(60)
    <3>2. x[i + 1] = counter_byte(x[i], c[i + 1]) /\ c[i + 1] = s[from + (i + 1)]
      BY <2>3, <2>4, <3>1 DEF N
    <3>3. h[from + (i + 1)] = counter_byte(h[from + i], s[from + (i + 1)])
      BY <1>4, <3>1
    <3> QED
      BY <2>7, <3>1, <3>2, <3>3
  <2>8. 0..N \subseteq Q
    <3> HIDE DEF Q
    <3> QED
      BY <2>5, <2>6, <2>7, Upwards
  <2>9. N \in 0..N /\ from + N = to
    BY <2>2, <2>5, SMTT(60)
  <2>10. counter_update(h[from], c) = h[to]
    BY <2>4, <2>8, <2>9 DEF N
  <2>11. g[k + 1] = counter_update(g[k], c)
    BY <1>5, <2>1 DEF c
  <2> QED
    BY <1>7, <2>1, <2>10, <2>11 DEF from, to
<1>8. 0..m \subseteq P
  <2> HIDE DEF P
  <2> QED
    BY <1>1, <1>6, <1>7, Upwards
<1>9. m \in 0..m
  BY <1>1, SMTT(60)
<1> QED
  BY <1>2, <1>4, <1>5, <1>8, <1>9

LEMMA JoinParts ==
    ASSUME NEW s \in Seq(Nat), NEW i \in Nat, NEW j \in Nat, i <= j, j <= Len(s)
    PROVE  SubSeq(s, 1, i) \o SubSeq(s, i + 1, j) = SubSeq(s, 1, j)
  BY SMTT(60)

\* A frame that is in its place opens.
LEMMA FrameOpens ==
    ASSUME NEW a, NEW q, NEW kind, NEW text, NEW f, f = write_frame(a, q, kind, text),
           NEW r, r.sequence = q, r.failed = FALSE, r.final = << >>, (kind = Manifest) <=> (q = 0)
    PROVE  ~Refused(a, r, f)
<1>1. Framed(f, a, q, kind, text)
  BY FrameFields
<1> QED
  BY <1>1 DEF Framed, Refused, read_frame

\* An archive as it was written decodes, and to the stream that was written.
LEMMA WrittenDecodes ==
    ASSUME NEW file, NEW a, NEW key, NEW s \in Seq(Nat), NEW b \in Nat \ {0}, NEW m, NEW chunks,
           Written(file, a, key, s, b, m, chunks),
           counter_finishes(counter_update(counter_new, s))
    PROVE  decode_archive(file, key).ok /\ decode_archive(file, key).logical = s
<1> DEFINE L == Len(s)
           E(k) == End(k, b, L)
           F == file.frames
           counter == Fold(counter_update, counter_new, chunks)
           final == <<counter.records, Len(s), s, m>>
<1>1. L \in Nat /\ m \in Nat /\ m = (L + b - 1) \div b /\ Len(chunks) = m
  <2>1. Chunked(s, b, m, chunks)
    BY DEF Written
  <2>2. L \in Nat
    BY SMTT(60)
  <2> QED
    BY <2>1, <2>2 DEF Chunked
<1>2. /\ file.archive_id = a /\ file.wrapped_for = key /\ file.trailing = FALSE /\ Len(F) = m + 2
      /\ F[1] = write_frame(a, 0, Manifest, << >>)
      /\ \A k \in 1..m : F[k + 1] = write_frame(a, k, Data, chunks[k])
      /\ F[m + 2] = write_frame(a, m + 1, Final, final)
  BY DEF Written
<1>3. /\ E(0) = 0 /\ E(m) = L
      /\ \A k \in 1..m : E(k - 1) \in Nat /\ E(k) \in Nat /\ E(k - 1) <= E(k) /\ E(k) <= L
  <2> HIDE DEF L
  <2> QED
    BY <1>1, ChunkEnds
<1>4. \A k \in 1..m : chunks[k] = SubSeq(s, E(k - 1) + 1, E(k))
  BY <1>1 DEF Written, Chunked
<1>5. counter = counter_update(counter_new, s)
  BY CounterAcrossChunks DEF Written
<1>6. final # << >>
  BY SMTT(60)
<1>7. Manifest # Data /\ Manifest # Final /\ Data # Final
  BY SMTT(60) DEF Manifest, Data, Final
<1> HIDE DEF final, counter, E, F
<1>8. PICK g : /\ g[0] = counter_new /\ counter = g[m]
               /\ \A k \in 1..m : g[k] = counter_update(g[k - 1], chunks[k])
  <2>1. PICK g : OverChunks(g, counter_new, chunks, m) /\ Fold(counter_update, counter_new, chunks) = g[m]
    BY <1>1, LoopChunks
  <2> QED
    BY <2>1 DEF OverChunks, counter
<1>9. PICK after : /\ AllRead(a, F, m + 2, after)
                   /\ decode_archive(file, key) = Verdict(file, key, after[m + 2])
  <2>1. m + 2 \in Nat
    BY <1>1, SMTT(60)
  <2>2. m + 2 = Len(file.frames)
    BY <1>2 DEF F
  <2> DEFINE N == m + 2
  <2> HIDE DEF N
  <2>3. PICK after : /\ OverFrames(after, file.archive_id, file.frames, N)
                     /\ decode_archive(file, key) = Verdict(file, key, after[N])
    BY <2>1, <2>2, LoopFrames DEF N
  <2>4. AllRead(a, F, N, after)
    BY <1>2, <2>1, <2>3, FramesRead DEF F, N
  <2> QED
    BY <2>3, <2>4 DEF N
<1>10. /\ after[0] = ReaderStart
       /\ \A n \in 0..(m + 2) : IsReader(after[n])
       /\ \A n \in 1..(m + 2) : after[n] = decode_frame(a, after[n - 1], F[n])
  BY <1>9 DEF AllRead
<1> DEFINE Sofar(k) == SubSeq(s, 1, E(k))
           State(k) == Reader(k + 1, g[k], Sofar(k), k, << >>, FALSE)
           P == {k \in 0..m : after[k + 1] = State(k)}
<1>11. 0 \in P
  <2> DEFINE r == after[0]
             d == after[1]
  <2>1. /\ 1 \in 1..(m + 2) /\ 1 - 1 = 0 /\ 0 \in 0..m /\ 0 + 1 = 1
        /\ 0 \in 0..(m + 2)
    BY <1>1, SMTT(60)
  <2>2. r = Reader(0, counter_new, << >>, 0, << >>, FALSE) /\ IsReader(r)
    BY <1>10, StartIsReader
  <2>3. d = decode_frame(a, r, F[1])
    BY <1>10, <2>1
  <2>4. Sofar(0) = << >>
    BY <1>3, SMTT(60)
  <2> HIDE DEF r, d, Sofar
  <2>5. Changes(r, 0, counter_new, << >>, 0, << >>, FALSE)
    BY <2>2, ReaderFields
  <2>6. /\ r.sequence = 0 /\ r.counter = counter_new /\ r.logical = << >>
        /\ r.data_frames = 0 /\ r.final = << >> /\ r.failed = FALSE
    BY <2>5 DEF Changes
  <2>7. ~Refused(a, r, F[1])
    BY <1>2, <2>6, FrameOpens
  <2>8. Reads(a, r, F[1], d)
    BY <2>2, <2>3, FrameRead
  <2>9. F[1].kind = Manifest
    <3>1. Framed(F[1], a, 0, Manifest, << >>)
      BY <1>2, FrameFields
    <3> QED
      BY <3>1 DEF Framed
  <2>10. d = Reader(r.sequence + 1, r.counter, r.logical, r.data_frames, r.final, FALSE)
    BY <2>7, <2>8, <2>9 DEF Reads
  <2> QED
    BY <1>8, <2>1, <2>4, <2>6, <2>10 DEF d
<1>12. ASSUME NEW k \in 0..m, k \in P, k + 1 <= m PROVE k + 1 \in P
  <2> DEFINE r == after[k + 1]
             d == after[k + 2]
             f == F[k + 2]
             text == chunks[k + 1]
  <2>1. /\ k + 1 \in 1..m /\ (k + 1) - 1 = k /\ k + 1 \in 0..m /\ k + 1 + 1 = k + 2
        /\ k + 2 \in 1..(m + 2) /\ (k + 2) - 1 = k + 1 /\ k + 1 \in 0..(m + 2) /\ k + 1 # 0
    BY <1>1, <1>12, SMTT(60)
  <2>2. r = Reader(k + 1, g[k], Sofar(k), k, << >>, FALSE) /\ IsReader(r)
    BY <1>10, <1>12, <2>1
  <2>3. d = decode_frame(a, r, f)
    BY <1>10, <2>1
  <2>4. f = write_frame(a, k + 1, Data, text)
    BY <1>2, <2>1
  <2>5. Sofar(k) \o text = Sofar(k + 1)
    <3> DEFINE i == E(k)
               j == E(k + 1)
    <3>1. i \in Nat /\ j \in Nat /\ i <= j /\ j <= Len(s) /\ text = SubSeq(s, i + 1, j)
      BY <1>3, <1>4, <2>1
    <3> HIDE DEF i, j, text
    <3>2. SubSeq(s, 1, i) \o SubSeq(s, i + 1, j) = SubSeq(s, 1, j)
      BY <3>1, JoinParts
    <3> QED
      BY <3>1, <3>2 DEF i, j
  <2>6. g[k + 1] = counter_update(g[k], text)
    BY <1>8, <2>1
  <2> HIDE DEF r, d, f, text, Sofar
  <2>7. Changes(r, k + 1, g[k], Sofar(k), k, << >>, FALSE)
    BY <2>2, ReaderFields
  <2>8. /\ r.sequence = k + 1 /\ r.counter = g[k] /\ r.logical = Sofar(k)
        /\ r.data_frames = k /\ r.final = << >> /\ r.failed = FALSE
    BY <2>7 DEF Changes
  <2>9. ~Refused(a, r, f)
    BY <1>7, <2>1, <2>4, <2>8, FrameOpens
  <2>10. Reads(a, r, f, d)
    BY <2>2, <2>3, FrameRead
  <2>11. f.kind = Data /\ f.sealed.plaintext = text
    <3>1. Framed(f, a, k + 1, Data, text)
      BY <2>4, FrameFields
    <3> QED
      BY <3>1 DEF Framed
  <2>12. d = Reader(r.sequence + 1, counter_update(r.counter, text), r.logical \o text,
                    r.data_frames + 1, r.final, FALSE)
    BY <2>9, <2>10, <2>11 DEF Reads
  <2>13. d = State(k + 1)
    BY <2>5, <2>6, <2>8, <2>12
  <2> QED
    BY <2>1, <2>13 DEF d
<1>13. 0..m \subseteq P
  <2> HIDE DEF P
  <2> QED
    BY <1>1, <1>11, <1>12, Upwards
<1>14. after[m + 2] = Reader(m + 2, counter, s, m, final, FALSE)
  <2> DEFINE r == after[m + 1]
             d == after[m + 2]
             f == F[m + 2]
  <2>1. /\ m \in 0..m /\ m + 2 \in 1..(m + 2) /\ (m + 2) - 1 = m + 1 /\ m + 1 \in 0..(m + 2)
        /\ m + 1 + 1 = m + 2 /\ m + 1 # 0
    BY <1>1, SMTT(60)
  <2>2. Sofar(m) = s
    BY <1>1, <1>3, SMTT(60)
  <2> HIDE DEF Sofar
  <2>3. r = Reader(m + 1, counter, s, m, << >>, FALSE) /\ IsReader(r)
    BY <1>8, <1>10, <1>13, <2>1, <2>2
  <2>4. d = decode_frame(a, r, f) /\ f = write_frame(a, m + 1, Final, final)
    BY <1>2, <1>10, <2>1
  <2> HIDE DEF r, d, f
  <2>5. Changes(r, m + 1, counter, s, m, << >>, FALSE)
    BY <2>3, ReaderFields
  <2>6. /\ r.sequence = m + 1 /\ r.counter = counter /\ r.logical = s
        /\ r.data_frames = m /\ r.final = << >> /\ r.failed = FALSE
    BY <2>5 DEF Changes
  <2>7. ~Refused(a, r, f)
    BY <1>7, <2>1, <2>4, <2>6, FrameOpens
  <2>8. Reads(a, r, f, d)
    BY <2>3, <2>4, FrameRead
  <2>9. f.kind \notin {Manifest, Data} /\ f.sealed.plaintext = final
    <3>1. Framed(f, a, m + 1, Final, final)
      BY <2>4, FrameFields
    <3> QED
      BY <1>7, <3>1 DEF Framed
  <2>10. d = Reader(r.sequence + 1, r.counter, r.logical, r.data_frames, final, FALSE)
    BY <2>7, <2>8, <2>9 DEF Reads
  <2> QED
    BY <2>1, <2>6, <2>10 DEF d
<1> DEFINE r == after[m + 2]
<1> HIDE DEF r
<1>15. Changes(r, m + 2, counter, s, m, final, FALSE)
  BY <1>14, ReaderFields DEF r
<1>16. r.counter = counter /\ r.logical = s /\ r.data_frames = m /\ r.final = final /\ r.failed = FALSE
  BY <1>15 DEF Changes
<1> DEFINE good == /\ file.wrapped_for = key
                   /\ ~r.failed /\ r.final # << >> /\ ~file.trailing
                   /\ counter_finishes(r.counter)
                   /\ r.final = <<r.counter.records, Len(r.logical), r.logical, r.data_frames>>
           logical == r.logical
           records == r.counter.records
<1>17. good
  BY <1>2, <1>5, <1>6, <1>16 DEF final
<1>18. decode_archive(file, key) = [ok |-> good, logical |-> logical, records |-> records]
  BY <1>9 DEF Verdict, r
<1> HIDE DEF good, logical, records
<1> QED
  BY <1>16, <1>17, <1>18, SMTT(60) DEF logical

\* A verification accepts an archive with its key and nothing else, and then what is
\* decoded is the stream that was written to the archive of that id.
LEMMA FormatExact ==
    ASSUME NEW u \in UploadsReceived
    PROVE  u.logical # None /\ (u.ok => u.logical = Stream[u.archive]) /\ (u.ok <=> u.genuine)
<1>1. PICK f \in Uploads, k \in {Key, WrongKey} : u = Received(f, k)
  BY SMTT(60) DEF UploadsReceived
<1> DEFINE decode == decode_archive(f, k)
           logical == IF decode.ok THEN decode.logical ELSE << >>
           ok == decode.ok
           genuine == f \in Files /\ k = Key
<1>2. u = [archive |-> f.archive_id, ok |-> ok, logical |-> logical, genuine |-> genuine]
  BY <1>1 DEF Received
<1>3. ok => genuine
  BY OnlyWritten
<1>4. ASSUME genuine PROVE ok /\ \E a \in Archive : f.archive_id = a /\ decode.logical = Stream[a]
  <2>1. PICK a \in Archive, b \in ChunkSizes : \E m :
           Written(f, a, Key, Stream[a], b, m, Chunks(Stream[a], b))
    BY <1>4, FileFacts
  <2>2. PICK m : Written(f, a, Key, Stream[a], b, m, Chunks(Stream[a], b))
    BY <2>1
  <2>3. /\ Stream[a] \in Seq(Nat) /\ b \in Nat \ {0}
        /\ counter_finishes(counter_update(counter_new, Stream[a]))
    BY StreamAssumption, ChannelAssumption
  <2>4. f.archive_id = a
    BY <2>2 DEF Written
  <2>5. decode_archive(f, Key).ok /\ decode_archive(f, Key).logical = Stream[a]
    BY <2>2, <2>3, WrittenDecodes
  <2> QED
    BY <1>4, <2>4, <2>5
<1>5. ok <=> genuine
  BY <1>3, <1>4
<1>6. logical # None
  BY <1>3, <1>4, StreamAssumption
<1>7. ok => logical = Stream[f.archive_id]
  BY <1>3, <1>4
<1> HIDE DEF ok, logical, genuine
<1>8. u.ok = ok /\ u.logical = logical /\ u.genuine = genuine /\ u.archive = f.archive_id
  BY <1>2
<1> QED
  BY <1>5, <1>6, <1>7, <1>8

-----------------------------------------------------------------------------
(* The inductive invariant.                                                *)

Imported == {u.logical : u \in UploadsReceived}

Database ==
    [installation : Nat, vault : Nat \union {None}, state : {"none", "initializing", "ready"},
     guard : BOOLEAN, rows : Imported \union {None}, audited : BOOLEAN,
     begun : Process \union {None}, amid : SUBSET Restorer]

Starting == {"opened", "writing root", "rooted", "begun"}
Holding == {"guarded", "imported", "audited", "verified"}
Staging == Holding \union {"staged"}
Rooting == Staging \union {"staging root", "staged root"}
Pcs == Starting \union Rooting
         \union {"idle", "decoding", "decoded", "removing database", "removing root"}

ProcessState ==
    [pc : Pcs, handle : 0..MaxFiles, id : KeyFor \union {None},
     archive : UploadsReceived \union {None}]

FilesTyped ==
    /\ path \in 1..MaxFiles \union {None}
    /\ root \in RootKeyFile \union {None}
    /\ disk \in [1..MaxFiles -> Database]
    /\ proc \in [Process -> ProcessState]

RootIs(k) == root # None /\ root.installation = k.installation /\ root.vault = k.vault
RootOpens(k) == RootIs(k) /\ root.whole = TRUE

\* A process that starts up: what it has in hand and, when no restore was under way as
\* the database at the path was created, that the root key it has is in its file.
StarterInv(p) ==
    /\ proc[p].pc \in Starting \union {"idle"}
    /\ proc[p].pc # "idle" => proc[p].handle \in 1..MaxFiles
    /\ proc[p].pc \in {"writing root", "rooted", "begun"} => proc[p].id \in KeyFor

StarterOpens(p) ==
    path # None /\ disk[path].amid = {} /\ proc[p].handle = path =>
       /\ proc[p].pc = "writing root" => RootIs(proc[p].id)
       /\ proc[p].pc \in {"rooted", "begun"} => RootOpens(proc[p].id)

\* One that restores: what it has in hand, ...
RestorerInv(r) ==
    /\ proc[r].pc \notin Starting
    /\ proc[r].pc # "idle" => proc[r].archive \in UploadsReceived
    /\ proc[r].pc \in Rooting => proc[r].id \in KeyFor
    /\ proc[r].pc \in Staging => proc[r].handle \in 1..MaxFiles

\* ... the database that it fills, which is its own and not ready before it says so, ...
HolderInv(r) ==
    proc[r].pc \in Holding =>
       /\ disk[proc[r].handle].begun = r /\ disk[proc[r].handle].state = "initializing"
       /\ disk[proc[r].handle].installation = proc[r].id.installation
       /\ disk[proc[r].handle].vault = proc[r].id.vault
       /\ proc[r].pc # "guarded" => disk[proc[r].handle].rows # None
       /\ proc[r].pc \in {"audited", "verified"} => disk[proc[r].handle].audited = TRUE

\* ... that it was under way when the database at the path was created, ...
AmidInv(r) == path # None /\ proc[r].pc # "idle" => r \in disk[path].amid

\* ... and, when no other one was, that what it has verified and made ready opens.
RestorerOpens(r) ==
    path # None /\ disk[path].amid \subseteq {r} =>
       /\ proc[r].pc = "verified" /\ proc[r].handle = path => RootOpens(proc[r].id)
       /\ disk[path].begun = r /\ disk[path].state = "ready" =>
             proc[r].pc = "idle" /\ RootOpens(disk[path])

\* A bootstrap comes once.  A restore's has a guard until the vault is ready, and then
\* the rows and the audit event; a start's has neither.
DatabaseInv(d) ==
    /\ disk[d].installation = 0 =>
          /\ disk[d].state = "none" /\ disk[d].begun = None /\ disk[d].rows = None
          /\ disk[d].audited = FALSE /\ disk[d].guard = FALSE
    /\ disk[d].installation # 0 => disk[d].state # "none" /\ disk[d].begun # None
    /\ disk[d].begun \in Starter => disk[d].rows = None /\ disk[d].guard = FALSE
    /\ disk[d].begun \in Restorer =>
          /\ disk[d].state = "initializing" => disk[d].guard = TRUE
          /\ disk[d].state = "ready" =>
             disk[d].rows # None /\ disk[d].audited = TRUE /\ disk[d].guard = FALSE

PathOpens ==
    path # None /\ disk[path].amid = {} /\ disk[path].installation # 0 => RootOpens(disk[path])

FilesInv ==
    /\ FilesTyped
    /\ \A p \in Starter : StarterInv(p) /\ StarterOpens(p)
    /\ \A r \in Restorer : RestorerInv(r) /\ HolderInv(r) /\ AmidInv(r) /\ RestorerOpens(r)
    /\ \A d \in 1..MaxFiles : DatabaseInv(d)
    /\ PathOpens

-----------------------------------------------------------------------------
(* Ids.                                                                    *)

LEMMA ImageBound ==
  ASSUME NEW S, IsFiniteSet(S), NEW f, f = [x \in S |-> f[x]]
  PROVE  /\ IsFiniteSet({f[x] : x \in S})
         /\ Cardinality({f[x] : x \in S}) \in Nat
         /\ Cardinality({f[x] : x \in S}) <= Cardinality(S)
<1> DEFINE T == {f[x] : x \in S}
<1>1. f \in [S -> T] /\ \A t \in T : \E s \in S : f[s] = t
  OBVIOUS
<1>2. f \in Surjection(S, T)
  BY <1>1 DEF Surjection
<1>3. IsFiniteSet(T) /\ Cardinality(T) <= Cardinality(S)
  BY <1>2, FS_Surjection
<1> QED
  BY <1>3, FS_CardinalityType

LEMMA UnionBound ==
  ASSUME NEW S, IsFiniteSet(S), NEW T, IsFiniteSet(T)
  PROVE  /\ IsFiniteSet(S \union T) /\ Cardinality(S \union T) \in Nat
         /\ Cardinality(S \union T) <= Cardinality(S) + Cardinality(T)
<1>1. IsFiniteSet(S \cap T)
  BY FS_Intersection
<1>2. IsFiniteSet(S \union T)
  BY FS_Union
<1>3. Cardinality(S \union T) = Cardinality(S) + Cardinality(T) - Cardinality(S \cap T)
  BY FS_Union
<1>4. /\ Cardinality(S) \in Nat /\ Cardinality(T) \in Nat
      /\ Cardinality(S \cap T) \in Nat /\ Cardinality(S \union T) \in Nat
  BY <1>1, <1>2, FS_CardinalityType
<1> QED
  BY <1>2, <1>3, <1>4, SMTT(60)

\* The random id that a new root key file is given is a new one.
LEMMA FreshIdIsNew ==
  ASSUME FilesTyped
  PROVE  FreshId \in Nat \ {0} /\ FreshId \notin Installations
<1> DEFINE P == {q \in Process : proc[q].id # None}
           f == [d \in 1..MaxFiles |-> disk[d].installation]
           g == [p \in P |-> proc[p].id.installation]
           A == {f[d] : d \in 1..MaxFiles}
           B == {g[p] : p \in P}
           C == IF root = None THEN {} ELSE {root.installation}
           n == MaxFiles + Cardinality(Process) + 2
<1>1. IsFiniteSet(Process) /\ Cardinality(Process) \in Nat
  BY FS_Union, FS_CardinalityType, InstallationAssumption DEF Process
<1>2. IsFiniteSet(P) /\ Cardinality(P) \in Nat /\ Cardinality(P) <= Cardinality(Process)
  BY <1>1, FS_Subset, FS_CardinalityType
<1>3. IsFiniteSet(1..MaxFiles) /\ Cardinality(1..MaxFiles) = MaxFiles
  BY FS_Interval, InstallationAssumption, SMTT(60)
<1>4. IsFiniteSet(A) /\ Cardinality(A) \in Nat /\ Cardinality(A) <= MaxFiles
  <2>1. f = [d \in 1..MaxFiles |-> f[d]]
    OBVIOUS
  <2> HIDE DEF f
  <2> QED
    BY <1>3, <2>1, ImageBound
<1>5. IsFiniteSet(B) /\ Cardinality(B) \in Nat /\ Cardinality(B) <= Cardinality(P)
  <2>1. g = [p \in P |-> g[p]]
    OBVIOUS
  <2> HIDE DEF P, g
  <2> QED
    BY <1>2, <2>1, ImageBound
<1>6. IsFiniteSet(C) /\ Cardinality(C) \in Nat /\ Cardinality(C) <= 1
  <2>1. C = {} \/ \E x : C = {x}
    OBVIOUS
  <2>2. /\ IsFiniteSet({}) /\ Cardinality({}) = 0
        /\ \A x : IsFiniteSet({x}) /\ Cardinality({x}) = 1
    BY FS_EmptySet, FS_Singleton
  <2> HIDE DEF C
  <2>3. IsFiniteSet(C) /\ (Cardinality(C) = 0 \/ Cardinality(C) = 1)
    BY <2>1, <2>2
  <2> QED
    BY <2>3, SMTT(60)
<1>7. Installations = (A \union B) \union C
  BY DEF Installations, FilesTyped
<1> HIDE DEF A, B, C
<1>8. /\ IsFiniteSet(A \union B) /\ Cardinality(A \union B) \in Nat
      /\ Cardinality(A \union B) <= Cardinality(A) + Cardinality(B)
  BY <1>4, <1>5, UnionBound
<1>9. /\ IsFiniteSet(Installations) /\ Cardinality(Installations) \in Nat
      /\ Cardinality(Installations) <= Cardinality(A \union B) + Cardinality(C)
  BY <1>6, <1>7, <1>8, UnionBound
<1>10. Cardinality(Installations) < n /\ n \in Nat
  BY <1>1, <1>2, <1>4, <1>5, <1>6, <1>8, <1>9, InstallationAssumption, SMTT(60)
<1>11. Cardinality(1..n) = n
  BY <1>10, FS_Interval, SMTT(60)
<1>12. ~(1..n \subseteq Installations)
  BY <1>9, <1>10, <1>11, FS_Subset, SMTT(60)
<1>13. FreshId \in 1..n /\ FreshId \notin Installations
  BY <1>12 DEF FreshId
<1> QED
  BY <1>10, <1>13, SMTT(60)

-----------------------------------------------------------------------------
(* What a step does to the state of its process.                           *)

LEMMA ProcessApart ==
  /\ \A p \in Starter : p \in Process /\ p \notin Restorer
  /\ \A r \in Restorer : r \in Process /\ r \notin Starter
  /\ None \notin Process
  BY InstallationAssumption DEF Process

LEMMA StopFacts ==
  ASSUME FilesTyped, NEW p \in Process, Stop(p)
  PROVE  /\ proc' \in [Process -> ProcessState]
         /\ proc'[p].pc = "idle" /\ proc'[p].handle = 0
         /\ \A o \in Process : o # p => proc'[o] = proc[o]
<1>1. 0 \in 0..MaxFiles
  BY InstallationAssumption, SMTT(60)
<1>2. Idle \in ProcessState
  BY <1>1 DEF Idle, ProcessState, Pcs
<1>3. Idle.pc = "idle" /\ Idle.handle = 0
  BY DEF Idle
<1> QED
  BY <1>2, <1>3 DEF FilesTyped, Stop

LEMMA GotoFacts ==
  ASSUME FilesTyped, NEW p \in Process, NEW pc \in Pcs, Goto(p, pc)
  PROVE  /\ proc' \in [Process -> ProcessState]
         /\ proc'[p].pc = pc /\ proc'[p].handle = proc[p].handle
         /\ proc'[p].id = proc[p].id /\ proc'[p].archive = proc[p].archive
         /\ \A o \in Process : o # p => proc'[o] = proc[o]
<1> DEFINE s == [proc[p] EXCEPT !.pc = pc]
<1>1. proc[p] \in ProcessState
  BY DEF FilesTyped
<1>2. /\ s \in ProcessState /\ s.pc = pc /\ s.handle = proc[p].handle
      /\ s.id = proc[p].id /\ s.archive = proc[p].archive
  BY <1>1 DEF ProcessState
<1>3. proc' = [proc EXCEPT ![p] = s]
  BY DEF Goto
<1> HIDE DEF s
<1> QED
  BY <1>2, <1>3 DEF FilesTyped

Keyed(p, k, pc) == proc' = [proc EXCEPT ![p].id = k, ![p].pc = pc]
Handed(p, d, pc) == proc' = [proc EXCEPT ![p].handle = d, ![p].pc = pc]

LEMMA KeyedFacts ==
  ASSUME FilesTyped, NEW p \in Process, NEW k \in KeyFor, NEW pc \in Pcs, Keyed(p, k, pc)
  PROVE  /\ proc' \in [Process -> ProcessState]
         /\ proc'[p].pc = pc /\ proc'[p].handle = proc[p].handle
         /\ proc'[p].id = k /\ proc'[p].archive = proc[p].archive
         /\ \A o \in Process : o # p => proc'[o] = proc[o]
<1> DEFINE s == [proc[p] EXCEPT !.id = k, !.pc = pc]
<1>1. proc[p] \in ProcessState
  BY DEF FilesTyped
<1>2. /\ s \in ProcessState /\ s.pc = pc /\ s.handle = proc[p].handle
      /\ s.id = k /\ s.archive = proc[p].archive
  BY <1>1 DEF ProcessState
<1>3. proc' = [proc EXCEPT ![p] = s]
  BY DEF FilesTyped, Keyed
<1> HIDE DEF s
<1> QED
  BY <1>2, <1>3 DEF FilesTyped

LEMMA HandedFacts ==
  ASSUME FilesTyped, NEW p \in Process, NEW d \in 1..MaxFiles, NEW pc \in Pcs, Handed(p, d, pc)
  PROVE  /\ proc' \in [Process -> ProcessState]
         /\ proc'[p].pc = pc /\ proc'[p].handle = d
         /\ proc'[p].id = proc[p].id /\ proc'[p].archive = proc[p].archive
         /\ \A o \in Process : o # p => proc'[o] = proc[o]
<1> DEFINE s == [proc[p] EXCEPT !.handle = d, !.pc = pc]
<1>1. proc[p] \in ProcessState /\ d \in 0..MaxFiles
  BY InstallationAssumption, SMTT(60) DEF FilesTyped
<1>2. /\ s \in ProcessState /\ s.pc = pc /\ s.handle = d
      /\ s.id = proc[p].id /\ s.archive = proc[p].archive
  BY <1>1 DEF ProcessState
<1>3. proc' = [proc EXCEPT ![p] = s]
  BY DEF FilesTyped, Handed
<1> HIDE DEF s
<1> QED
  BY <1>2, <1>3 DEF FilesTyped

LEMMA DatabaseFacts ==
  ASSUME FilesTyped, NEW d \in 1..MaxFiles
  PROVE  /\ disk[d] \in Database /\ d # None
         /\ disk[d].installation \in Nat /\ disk[d].amid \subseteq Restorer
  BY AbsenceAssumption, SMTT(60) DEF FilesTyped, Database

-----------------------------------------------------------------------------
(* Steps that change nothing but the state of a process.                   *)

LEMMA OtherStarter ==
  ASSUME FilesInv, UNCHANGED files, NEW o \in Starter, proc'[o] = proc[o]
  PROVE  StarterInv(o)' /\ StarterOpens(o)'
<1>1. StarterInv(o) /\ StarterOpens(o)
  BY DEF FilesInv
<1>2. StarterInv(o)'
  BY <1>1 DEF StarterInv
<1>3. StarterOpens(o)'
  BY <1>1 DEF StarterOpens, RootIs, RootOpens, files
<1> QED
  BY <1>2, <1>3

LEMMA OtherRestorer ==
  ASSUME FilesInv, UNCHANGED files, NEW o \in Restorer, proc'[o] = proc[o]
  PROVE  RestorerInv(o)' /\ HolderInv(o)' /\ AmidInv(o)' /\ RestorerOpens(o)'
<1>1. RestorerInv(o) /\ HolderInv(o) /\ AmidInv(o) /\ RestorerOpens(o)
  BY DEF FilesInv
<1>2. RestorerInv(o)'
  BY <1>1 DEF RestorerInv, files
<1>3. HolderInv(o)' /\ AmidInv(o)'
  BY <1>1 DEF HolderInv, AmidInv, files
<1>4. RestorerOpens(o)'
  BY <1>1 DEF RestorerOpens, RootIs, RootOpens, files
<1> QED
  BY <1>2, <1>3, <1>4

LEMMA OtherFiles ==
  ASSUME FilesInv, UNCHANGED files
  PROVE  /\ \A d \in 1..MaxFiles : DatabaseInv(d)'
         /\ PathOpens'
<1>1. ASSUME NEW d \in 1..MaxFiles
      PROVE  DatabaseInv(d)'
  <2>1. DatabaseInv(d)
    BY DEF FilesInv
  <2> QED
    BY <2>1 DEF DatabaseInv, files
<1>2. PathOpens'
  <2>1. PathOpens
    BY DEF FilesInv
  <2> QED
    BY <2>1 DEF PathOpens, RootIs, RootOpens, files
<1> QED
  BY <1>1, <1>2

\* What they leave to show is about that process.
LEMMA OnlyProcess ==
  ASSUME FilesInv, UNCHANGED files, NEW p \in Process,
         proc' \in [Process -> ProcessState],
         \A o \in Process : o # p => proc'[o] = proc[o],
         p \in Starter => StarterInv(p)' /\ StarterOpens(p)',
         p \in Restorer => RestorerInv(p)' /\ HolderInv(p)' /\ AmidInv(p)' /\ RestorerOpens(p)'
  PROVE  FilesInv'
<1>1. FilesTyped'
  BY DEF FilesInv, FilesTyped, files
<1>2. \A o \in Starter : StarterInv(o)' /\ StarterOpens(o)'
  BY ProcessApart, OtherStarter
<1>3. \A o \in Restorer :
         RestorerInv(o)' /\ HolderInv(o)' /\ AmidInv(o)' /\ RestorerOpens(o)'
  BY ProcessApart, OtherRestorer
<1> QED
  BY <1>1, <1>2, <1>3, OtherFiles DEF FilesInv

\* A process that stops, or is killed, holds nothing.
LEMMA StopKeeps ==
  ASSUME FilesInv, NEW p \in Process, Stop(p), UNCHANGED files
  PROVE  FilesInv'
<1>1. FilesTyped /\ 0 \notin 1..MaxFiles
  BY InstallationAssumption, SMTT(60) DEF FilesInv
<1>2. /\ proc' \in [Process -> ProcessState] /\ proc'[p].pc = "idle" /\ proc'[p].handle = 0
      /\ \A o \in Process : o # p => proc'[o] = proc[o]
  BY <1>1, StopFacts
<1>3. ASSUME p \in Starter
      PROVE  StarterInv(p)' /\ StarterOpens(p)'
  BY <1>2 DEF StarterInv, StarterOpens
<1>4. ASSUME p \in Restorer
      PROVE  RestorerInv(p)' /\ HolderInv(p)' /\ AmidInv(p)' /\ RestorerOpens(p)'
  <2>1. RestorerOpens(p)
    BY <1>4 DEF FilesInv
  <2>2. RestorerInv(p)' /\ HolderInv(p)' /\ AmidInv(p)'
    BY <1>2 DEF RestorerInv, HolderInv, AmidInv, Rooting, Staging, Holding, Starting
  <2>3. RestorerOpens(p)'
    BY <1>2, <2>1 DEF RestorerOpens, RootIs, RootOpens, files
  <2> QED
    BY <2>2, <2>3
<1> QED
  BY <1>2, <1>3, <1>4, OnlyProcess

\* load_root_key_file: the process has the key that is in the file.
LEMMA LoadKeeps ==
  ASSUME FilesInv, NEW p \in Starter, load_root_key_file(p)
  PROVE  FilesInv'
<1> DEFINE k == [installation |-> root.installation, vault |-> root.vault]
<1>1. FilesTyped /\ p \in Process /\ p \notin Restorer /\ UNCHANGED files
  BY ProcessApart DEF FilesInv, load_root_key_file, files
<1>2. root # None /\ root \in RootKeyFile /\ root.whole = TRUE
  BY <1>1 DEF load_root_key_file, root_usable, FilesTyped, RootKeyFile
<1>3. /\ k \in KeyFor /\ root.installation = k.installation /\ root.vault = k.vault
      /\ "rooted" \in Pcs
  BY <1>2 DEF KeyFor, RootKeyFile, Pcs, Starting
<1>4. Keyed(p, k, "rooted")
  BY DEF load_root_key_file, Keyed
<1> HIDE DEF k
<1>5. /\ proc' \in [Process -> ProcessState]
      /\ proc'[p].pc = "rooted" /\ proc'[p].handle = proc[p].handle /\ proc'[p].id = k
      /\ \A o \in Process : o # p => proc'[o] = proc[o]
  BY <1>1, <1>3, <1>4, KeyedFacts, SMTT(60)
<1>6. proc[p].handle \in 1..MaxFiles
  BY DEF FilesInv, StarterInv, load_root_key_file
<1>7. StarterInv(p)'
  BY <1>3, <1>5, <1>6 DEF StarterInv, Starting
<1>8. StarterOpens(p)'
  BY <1>1, <1>2, <1>3, <1>5 DEF StarterOpens, RootIs, RootOpens, files
<1> QED
  BY <1>1, <1>5, <1>7, <1>8, OnlyProcess

\* begin_restore: the destination is empty.
LEMMA BeginKeeps ==
  ASSUME FilesInv, NEW r \in Restorer, NEW u \in UploadsReceived, begin_restore(r, u)
  PROVE  FilesInv'
<1> DEFINE s == [Idle EXCEPT !.pc = "decoding", !.archive = u]
<1>1. FilesTyped /\ r \in Process /\ r \notin Starter /\ UNCHANGED files /\ path' = None
  BY ProcessApart DEF FilesInv, begin_restore, destination_is_new, files
<1>2. 0 \in 0..MaxFiles
  BY InstallationAssumption, SMTT(60)
<1>3. s \in ProcessState /\ s.pc = "decoding" /\ s.archive = u
  BY <1>2 DEF Idle, ProcessState, Pcs
<1>4. proc' = [proc EXCEPT ![r] = s]
  BY DEF begin_restore
<1> HIDE DEF s
<1>5. /\ proc' \in [Process -> ProcessState] /\ proc'[r].pc = "decoding" /\ proc'[r].archive = u
      /\ \A o \in Process : o # r => proc'[o] = proc[o]
  BY <1>1, <1>3, <1>4 DEF FilesTyped
<1>6. RestorerInv(r)'
  BY <1>5 DEF RestorerInv, Rooting, Staging, Holding, Starting
<1>7. HolderInv(r)' /\ AmidInv(r)' /\ RestorerOpens(r)'
  BY <1>1, <1>5 DEF HolderInv, AmidInv, RestorerOpens, Holding
<1> QED
  BY <1>1, <1>5, <1>6, <1>7, OnlyProcess

\* A restore that goes on has what it had.
LEMMA RestorerGoes ==
  ASSUME FilesInv, NEW r \in Restorer, UNCHANGED files, NEW pc \in Pcs, Goto(r, pc),
         proc[r].pc # "idle", pc # "idle", pc \notin Starting,
         pc \in Rooting => proc[r].pc \in Rooting,
         pc \in Staging => proc[r].pc \in Staging,
         pc \in Holding => pc = "verified" /\ proc[r].pc = "audited",
         pc = "verified" => RootOpens(proc[r].id)
  PROVE  FilesInv'
<1>1. FilesTyped /\ r \in Process /\ r \notin Starter
  BY ProcessApart DEF FilesInv
<1>2. RestorerInv(r) /\ HolderInv(r) /\ AmidInv(r) /\ RestorerOpens(r)
  BY DEF FilesInv
<1>3. /\ proc' \in [Process -> ProcessState]
      /\ proc'[r].pc = pc /\ proc'[r].handle = proc[r].handle
      /\ proc'[r].id = proc[r].id /\ proc'[r].archive = proc[r].archive
      /\ \A o \in Process : o # r => proc'[o] = proc[o]
  BY <1>1, GotoFacts
<1>4. root' = root /\ path' = path /\ disk' = disk
  BY DEF files
<1>5. RestorerInv(r)'
  BY <1>2, <1>3 DEF RestorerInv
<1>6. HolderInv(r)'
  BY <1>2, <1>3, <1>4 DEF HolderInv, Holding
<1>7. AmidInv(r)'
  BY <1>2, <1>3, <1>4 DEF AmidInv
<1>8. RestorerOpens(r)'
  BY <1>2, <1>3, <1>4 DEF RestorerOpens, RootIs, RootOpens
<1> QED
  BY <1>1, <1>3, <1>5, <1>6, <1>7, <1>8, OnlyProcess

LEMMA RestorerGoesOn ==
  ASSUME FilesInv, NEW r \in Restorer,
         decoded(r) \/ verify_restore_staging_reopen(r) \/ restore_fails(r)
  PROVE  FilesInv'
<1>1. CASE decoded(r)
  <2>1. /\ "decoded" \in Pcs /\ "decoded" \notin Starting \union Rooting \union Staging \union Holding
        /\ "decoded" # "idle"
    BY DEF Pcs, Starting, Rooting, Staging, Holding
  <2> QED
    BY <1>1, <2>1, RestorerGoes DEF decoded, files
<1>2. CASE verify_restore_staging_reopen(r)
  <2>1. "verified" \in Pcs /\ "verified" \notin Starting /\ "audited" \in Rooting \cap Staging
    BY DEF Pcs, Starting, Rooting, Staging, Holding
  <2>2. RootOpens(proc[r].id)
    <3>1. root \in RootKeyFile
      BY <1>2 DEF verify_restore_staging_reopen, reopens, FilesInv, FilesTyped
    <3> QED
      BY <1>2, <3>1
         DEF verify_restore_staging_reopen, reopens, RootOpens, RootIs, RootKeyFile
  <2> QED
    BY <1>2, <2>1, <2>2, RestorerGoes DEF verify_restore_staging_reopen, files
<1>3. CASE restore_fails(r)
  <2>1. /\ "removing database" \in Pcs
        /\ "removing database" \notin Starting \union Rooting \union Staging \union Holding
    BY DEF Pcs, Starting, Rooting, Staging, Holding
  <2> QED
    BY <1>3, <2>1, RestorerGoes DEF restore_fails, files
<1> QED
  BY <1>1, <1>2, <1>3

-----------------------------------------------------------------------------
(* Steps that change the root key file.                                    *)

RootKept ==
    root # None =>
       /\ root' # None /\ root'.installation = root.installation /\ root'.vault = root.vault
       /\ root.whole = TRUE => root'.whole = TRUE

\* A root key that stays in its file goes on to open what it opened.
LEMMA RootKeptOthers ==
  ASSUME FilesInv, RootKept, path' = path, disk' = disk
  PROVE  /\ \A o \in Starter : proc'[o] = proc[o] => StarterInv(o)' /\ StarterOpens(o)'
         /\ \A o \in Restorer : proc'[o] = proc[o] =>
              RestorerInv(o)' /\ HolderInv(o)' /\ AmidInv(o)' /\ RestorerOpens(o)'
         /\ PathOpens' /\ \A d \in 1..MaxFiles : DatabaseInv(d)'
<1>1. ASSUME NEW o \in Starter, proc'[o] = proc[o]
      PROVE  StarterInv(o)' /\ StarterOpens(o)'
  <2>1. StarterInv(o) /\ StarterOpens(o)
    BY DEF FilesInv
  <2>2. StarterInv(o)'
    BY <1>1, <2>1 DEF StarterInv
  <2>3. StarterOpens(o)'
    BY <1>1, <2>1 DEF StarterOpens, RootIs, RootOpens, RootKept
  <2> QED
    BY <2>2, <2>3
<1>2. ASSUME NEW o \in Restorer, proc'[o] = proc[o]
      PROVE  RestorerInv(o)' /\ HolderInv(o)' /\ AmidInv(o)' /\ RestorerOpens(o)'
  <2>1. RestorerInv(o) /\ HolderInv(o) /\ AmidInv(o) /\ RestorerOpens(o)
    BY DEF FilesInv
  <2>2. RestorerInv(o)' /\ HolderInv(o)' /\ AmidInv(o)'
    BY <1>2, <2>1 DEF RestorerInv, HolderInv, AmidInv
  <2>3. RestorerOpens(o)'
    BY <1>2, <2>1 DEF RestorerOpens, RootIs, RootOpens, RootKept
  <2> QED
    BY <2>2, <2>3
<1>3. PathOpens'
  <2>1. PathOpens
    BY DEF FilesInv
  <2> QED
    BY <2>1 DEF PathOpens, RootIs, RootOpens, RootKept
<1>4. ASSUME NEW d \in 1..MaxFiles
      PROVE  DatabaseInv(d)'
  <2>1. DatabaseInv(d)
    BY DEF FilesInv
  <2> QED
    BY <2>1 DEF DatabaseInv
<1> QED
  BY <1>1, <1>2, <1>3, <1>4

LEMMA RootAndProcess ==
  ASSUME FilesInv, RootKept, path' = path, disk' = disk,
         root' \in RootKeyFile \union {None}, NEW p \in Process,
         proc' \in [Process -> ProcessState],
         \A o \in Process : o # p => proc'[o] = proc[o],
         p \in Starter => StarterInv(p)' /\ StarterOpens(p)',
         p \in Restorer => RestorerInv(p)' /\ HolderInv(p)' /\ AmidInv(p)' /\ RestorerOpens(p)'
  PROVE  FilesInv'
<1>1. FilesTyped'
  BY DEF FilesInv, FilesTyped
<1>2. \A o \in Starter : StarterInv(o)' /\ StarterOpens(o)'
  BY ProcessApart, RootKeptOthers
<1>3. \A o \in Restorer :
         RestorerInv(o)' /\ HolderInv(o)' /\ AmidInv(o)' /\ RestorerOpens(o)'
  BY ProcessApart, RootKeptOthers
<1> QED
  BY <1>1, <1>2, <1>3, RootKeptOthers DEF FilesInv

\* create_root_key_file: there was none.
LEMMA CreatedRoot ==
  ASSUME FilesTyped, NEW p \in Process, NEW v \in Nat, NEW pc \in Pcs,
         create_root_key_file(p, v, pc)
  PROVE  /\ RootKept /\ root' \in RootKeyFile /\ path' = path /\ disk' = disk
         /\ RootIs(proc[p].id)' /\ proc'[p].id \in KeyFor
         /\ proc' \in [Process -> ProcessState]
         /\ proc'[p].pc = pc /\ proc'[p].handle = proc[p].handle
         /\ proc'[p].archive = proc[p].archive
         /\ \A o \in Process : o # p => proc'[o] = proc[o]
<1> DEFINE k == [installation |-> FreshId, vault |-> v]
           f == [installation |-> FreshId, vault |-> v, whole |-> FALSE]
<1>1. FreshId \in Nat \ {0}
  BY FreshIdIsNew
<1>2. k \in KeyFor /\ f \in RootKeyFile
  BY <1>1 DEF KeyFor, RootKeyFile
<1>3. f.installation = k.installation /\ f.vault = k.vault
  OBVIOUS
<1>4. root = None /\ root' = f /\ Keyed(p, k, pc) /\ path' = path /\ disk' = disk
  BY DEF create_root_key_file, Keyed
<1> HIDE DEF k, f
<1>5. /\ proc' \in [Process -> ProcessState]
      /\ proc'[p].pc = pc /\ proc'[p].handle = proc[p].handle
      /\ proc'[p].id = k /\ proc'[p].archive = proc[p].archive
      /\ \A o \in Process : o # p => proc'[o] = proc[o]
  BY <1>2, <1>4, KeyedFacts
<1>6. f # None
  BY <1>2, AbsenceAssumption
<1>7. RootIs(proc[p].id)'
  BY <1>3, <1>4, <1>5, <1>6 DEF RootIs
<1>8. RootKept
  BY <1>4 DEF RootKept
<1> QED
  BY <1>2, <1>4, <1>5, <1>7, <1>8

LEMMA CreateRootKeeps ==
  ASSUME FilesInv, NEW p \in Starter, create_root(p)
  PROVE  FilesInv'
<1>1. FilesTyped /\ p \in Process /\ p \notin Restorer
  BY ProcessApart DEF FilesInv
<1>2. FreshId \in Nat /\ "writing root" \in Pcs
  BY <1>1, FreshIdIsNew DEF Pcs, Starting
<1>3. create_root_key_file(p, FreshId, "writing root")
  BY DEF create_root
<1>4. proc[p].handle \in 1..MaxFiles
  BY DEF FilesInv, StarterInv, create_root
<1>5. /\ RootKept /\ root' \in RootKeyFile /\ path' = path /\ disk' = disk
      /\ RootIs(proc[p].id)' /\ proc'[p].id \in KeyFor
      /\ proc' \in [Process -> ProcessState]
      /\ proc'[p].pc = "writing root" /\ proc'[p].handle = proc[p].handle
      /\ \A o \in Process : o # p => proc'[o] = proc[o]
  BY <1>1, <1>2, <1>3, CreatedRoot
<1>6. StarterInv(p)' /\ StarterOpens(p)'
  BY <1>4, <1>5 DEF StarterInv, StarterOpens, Starting
<1> QED
  BY <1>1, <1>5, <1>6, RootAndProcess

LEMMA StageRootKeeps ==
  ASSUME FilesInv, NEW r \in Restorer, NEW v \in Nat, stage_root(r, v)
  PROVE  FilesInv'
<1>1. FilesTyped /\ r \in Process /\ r \notin Starter /\ path = None
  BY ProcessApart DEF FilesInv, stage_root, destination_is_new
<1>2. "staging root" \in Pcs
  BY DEF Pcs, Rooting
<1>3. create_root_key_file(r, v, "staging root")
  BY DEF stage_root
<1>4. proc[r].archive \in UploadsReceived
  BY DEF FilesInv, RestorerInv, stage_root
<1>5. /\ RootKept /\ root' \in RootKeyFile /\ path' = path /\ disk' = disk
      /\ proc'[r].id \in KeyFor /\ proc' \in [Process -> ProcessState]
      /\ proc'[r].pc = "staging root" /\ proc'[r].archive = proc[r].archive
      /\ \A o \in Process : o # r => proc'[o] = proc[o]
  BY <1>1, <1>2, <1>3, CreatedRoot
<1>6. RestorerInv(r)'
  BY <1>4, <1>5 DEF RestorerInv, Rooting, Staging, Holding, Starting
<1>7. HolderInv(r)' /\ AmidInv(r)' /\ RestorerOpens(r)'
  BY <1>1, <1>5 DEF HolderInv, AmidInv, RestorerOpens, Holding
<1> QED
  BY <1>1, <1>5, <1>6, <1>7, RootAndProcess

\* write_root_key: the rest of the file that the process created, if it is there.
LEMMA WrittenRoot ==
  ASSUME FilesTyped, NEW p \in Process, NEW pc \in Pcs, write_root_key(p, pc)
  PROVE  /\ RootKept /\ root' \in RootKeyFile \union {None} /\ path' = path /\ disk' = disk
         /\ RootIs(proc[p].id) => RootOpens(proc[p].id)'
         /\ proc' \in [Process -> ProcessState]
         /\ proc'[p].pc = pc /\ proc'[p].handle = proc[p].handle
         /\ proc'[p].id = proc[p].id /\ proc'[p].archive = proc[p].archive
         /\ \A o \in Process : o # p => proc'[o] = proc[o]
<1> DEFINE f == [root EXCEPT !.whole = TRUE]
<1>1. Goto(p, pc) /\ path' = path /\ disk' = disk
  BY DEF write_root_key
<1>2. /\ proc' \in [Process -> ProcessState]
      /\ proc'[p].pc = pc /\ proc'[p].handle = proc[p].handle
      /\ proc'[p].id = proc[p].id /\ proc'[p].archive = proc[p].archive
      /\ \A o \in Process : o # p => proc'[o] = proc[o]
  BY <1>1, GotoFacts
<1>3. CASE root # None /\ root.installation = proc[p].id.installation
  <2>1. root \in RootKeyFile
    BY <1>3 DEF FilesTyped
  <2>2. /\ f \in RootKeyFile /\ f.whole = TRUE
        /\ f.installation = root.installation /\ f.vault = root.vault
    BY <2>1 DEF RootKeyFile
  <2>3. root' = f
    BY <1>3 DEF write_root_key
  <2> HIDE DEF f
  <2>4. f # None
    BY <2>2, AbsenceAssumption
  <2>5. RootKept
    BY <2>2, <2>3, <2>4 DEF RootKept
  <2>6. RootIs(proc[p].id) => RootOpens(proc[p].id)'
    BY <1>2, <2>2, <2>3, <2>4 DEF RootIs, RootOpens
  <2> QED
    BY <1>1, <1>2, <2>2, <2>3, <2>5, <2>6
<1>4. CASE ~(root # None /\ root.installation = proc[p].id.installation)
  <2>1. root' = root
    BY <1>4 DEF write_root_key
  <2>2. RootKept /\ root' \in RootKeyFile \union {None}
    BY <2>1 DEF RootKept, FilesTyped
  <2>3. ~RootIs(proc[p].id)
    BY <1>4 DEF RootIs
  <2> QED
    BY <1>1, <1>2, <2>2, <2>3
<1> QED
  BY <1>3, <1>4

LEMMA WriteRootKeeps ==
  ASSUME FilesInv, NEW p \in Starter, write_root(p)
  PROVE  FilesInv'
<1>1. FilesTyped /\ p \in Process /\ p \notin Restorer /\ StarterInv(p) /\ StarterOpens(p)
  BY ProcessApart DEF FilesInv
<1>2. proc[p].pc = "writing root" /\ write_root_key(p, "rooted") /\ "rooted" \in Pcs
  BY DEF write_root, Pcs, Starting
<1>3. /\ RootKept /\ root' \in RootKeyFile \union {None} /\ path' = path /\ disk' = disk
      /\ RootIs(proc[p].id) => RootOpens(proc[p].id)'
      /\ proc' \in [Process -> ProcessState]
      /\ proc'[p].pc = "rooted" /\ proc'[p].handle = proc[p].handle
      /\ proc'[p].id = proc[p].id
      /\ \A o \in Process : o # p => proc'[o] = proc[o]
  BY <1>1, <1>2, WrittenRoot
<1>4. StarterInv(p)'
  BY <1>1, <1>2, <1>3 DEF StarterInv, Starting
<1>5. StarterOpens(p)'
  BY <1>1, <1>2, <1>3 DEF StarterOpens
<1> QED
  BY <1>1, <1>3, <1>4, <1>5, RootAndProcess

LEMMA StageWrittenKeeps ==
  ASSUME FilesInv, NEW r \in Restorer, stage_root_written(r)
  PROVE  FilesInv'
<1>1. /\ FilesTyped /\ r \in Process /\ r \notin Starter
      /\ RestorerInv(r) /\ AmidInv(r) /\ RestorerOpens(r)
  BY ProcessApart DEF FilesInv
<1>2. /\ proc[r].pc = "staging root" /\ write_root_key(r, "staged root")
      /\ "staged root" \in Pcs
  BY DEF stage_root_written, Pcs, Rooting
<1>3. /\ RootKept /\ root' \in RootKeyFile \union {None} /\ path' = path /\ disk' = disk
      /\ proc' \in [Process -> ProcessState]
      /\ proc'[r].pc = "staged root" /\ proc'[r].handle = proc[r].handle
      /\ proc'[r].id = proc[r].id /\ proc'[r].archive = proc[r].archive
      /\ \A o \in Process : o # r => proc'[o] = proc[o]
  BY <1>1, <1>2, WrittenRoot
<1>4. RestorerInv(r)'
  BY <1>1, <1>2, <1>3 DEF RestorerInv, Rooting, Staging, Holding, Starting
<1>5. HolderInv(r)' /\ AmidInv(r)'
  BY <1>1, <1>2, <1>3 DEF HolderInv, AmidInv, Holding
<1>6. RestorerOpens(r)'
  BY <1>1, <1>2, <1>3 DEF RestorerOpens
<1> QED
  BY <1>1, <1>3, <1>4, <1>5, <1>6, RootAndProcess

\* remove_root: what it may have opened was created while this restore was under way.
LEMMA RemoveRootKeeps ==
  ASSUME FilesInv, NEW r \in Restorer, remove_root(r)
  PROVE  FilesInv'
<1>1. /\ FilesTyped /\ r \in Process /\ r \notin Starter
      /\ RestorerInv(r) /\ AmidInv(r) /\ RestorerOpens(r)
  BY ProcessApart DEF FilesInv
<1>2. /\ proc[r].pc = "removing root" /\ Stop(r) /\ path' = path /\ disk' = disk
      /\ root' \in {root, None}
  BY DEF remove_root
<1>3. /\ proc' \in [Process -> ProcessState] /\ proc'[r].pc = "idle" /\ proc'[r].handle = 0
      /\ \A o \in Process : o # r => proc'[o] = proc[o]
  BY <1>1, <1>2, StopFacts
<1>4. FilesTyped'
  BY <1>1, <1>2, <1>3 DEF FilesTyped
<1>5. path # None => r \in disk[path].amid
  BY <1>1, <1>2 DEF AmidInv
<1>6. ASSUME NEW o \in Starter
      PROVE  StarterInv(o)' /\ StarterOpens(o)'
  <2>1. proc'[o] = proc[o] /\ StarterInv(o)
    BY <1>1, <1>3, ProcessApart DEF FilesInv
  <2>2. StarterInv(o)'
    BY <2>1 DEF StarterInv
  <2>3. StarterOpens(o)'
    BY <1>2, <1>5 DEF StarterOpens
  <2> QED
    BY <2>2, <2>3
<1>7. ASSUME NEW o \in Restorer
      PROVE  RestorerInv(o)' /\ HolderInv(o)' /\ AmidInv(o)' /\ RestorerOpens(o)'
  <2>1. CASE o = r
    <3>1. RestorerInv(r)'
      BY <1>3 DEF RestorerInv, Rooting, Staging, Holding, Starting
    <3>2. HolderInv(r)' /\ AmidInv(r)'
      BY <1>3 DEF HolderInv, AmidInv, Holding
    <3>3. RestorerOpens(r)'
      BY <1>1, <1>2, <1>3 DEF RestorerOpens
    <3> QED
      BY <2>1, <3>1, <3>2, <3>3
  <2>2. CASE o # r
    <3>1. /\ proc'[o] = proc[o] /\ RestorerInv(o) /\ HolderInv(o) /\ AmidInv(o)
      BY <1>1, <1>3, <2>2, ProcessApart DEF FilesInv
    <3>2. RestorerInv(o)' /\ HolderInv(o)' /\ AmidInv(o)'
      BY <1>2, <3>1 DEF RestorerInv, HolderInv, AmidInv
    <3>3. RestorerOpens(o)'
      BY <1>2, <1>5, <2>2 DEF RestorerOpens
    <3> QED
      BY <3>2, <3>3
  <2> QED
    BY <2>1, <2>2
<1>8. ASSUME NEW d \in 1..MaxFiles
      PROVE  DatabaseInv(d)'
  <2>1. DatabaseInv(d)
    BY DEF FilesInv
  <2> QED
    BY <1>2, <2>1 DEF DatabaseInv
<1>9. PathOpens'
  BY <1>2, <1>5 DEF PathOpens
<1> QED
  BY <1>4, <1>6, <1>7, <1>8, <1>9 DEF FilesInv

-----------------------------------------------------------------------------
(* Steps that open, create or unlink the database at the path.             *)

LEMMA LeastNumber ==
  ASSUME NEW S, S \subseteq Nat, S # {}
  PROVE  \E x \in S : \A y \in S : x <= y
<1>1. PICK x \in S : \A y \in S : <<y, x>> \notin OpToRel(<, Nat)
  BY WFMin, NatLessThanWellFounded
<1>2. \A y \in S : ~(y < x)
  BY <1>1 DEF OpToRel
<1> QED
  BY <1>2, SMTT(60)

\* What a process that has opened the store may be.
OpenedAs(p, pc) ==
    /\ p \in Starter => pc = "opened"
    /\ p \in Restorer =>
          /\ proc[p].pc # "idle" /\ pc \in {"staged", "removing database"}
          /\ pc = "staged" => proc[p].pc = "staged root"

LEMMA OpenedOwn ==
  ASSUME FilesInv, NEW p \in Process, NEW pc \in Pcs, OpenedAs(p, pc),
         NEW d \in 1..MaxFiles, Handed(p, d, pc)
  PROVE  /\ p \in Starter => StarterInv(p)' /\ StarterOpens(p)'
         /\ p \in Restorer => RestorerInv(p)' /\ HolderInv(p)'
<1>1. /\ proc'[p].pc = pc /\ proc'[p].handle = d
      /\ proc'[p].id = proc[p].id /\ proc'[p].archive = proc[p].archive
  BY HandedFacts DEF FilesInv
<1>2. ASSUME p \in Starter
      PROVE  StarterInv(p)' /\ StarterOpens(p)'
  BY <1>1, <1>2 DEF StarterInv, StarterOpens, OpenedAs, Starting
<1>3. ASSUME p \in Restorer
      PROVE  RestorerInv(p)' /\ HolderInv(p)'
  <2>1. RestorerInv(p)
    BY <1>3 DEF FilesInv
  <2>2. pc \notin Starting /\ pc \notin Holding /\ (pc \in Rooting => pc = "staged")
    BY <1>3 DEF OpenedAs, Starting, Rooting, Staging, Holding
  <2>3. "staged root" \in Rooting
    BY DEF Rooting
  <2> QED
    BY <1>1, <1>3, <2>1, <2>2, <2>3 DEF RestorerInv, HolderInv, OpenedAs
<1> QED
  BY <1>2, <1>3

LEMMA OpenedThere ==
  ASSUME FilesInv, NEW p \in Process, NEW pc \in Pcs, OpenedAs(p, pc),
         path # None, Handed(p, path, pc), UNCHANGED files
  PROVE  FilesInv'
<1>1. FilesTyped /\ path \in 1..MaxFiles
  BY DEF FilesInv, FilesTyped
<1>2. /\ proc' \in [Process -> ProcessState] /\ proc'[p].pc = pc
      /\ \A o \in Process : o # p => proc'[o] = proc[o]
  BY <1>1, HandedFacts
<1>3. /\ p \in Starter => StarterInv(p)' /\ StarterOpens(p)'
      /\ p \in Restorer => RestorerInv(p)' /\ HolderInv(p)'
  BY <1>1, OpenedOwn
<1>4. ASSUME p \in Restorer
      PROVE  AmidInv(p)' /\ RestorerOpens(p)'
  <2>1. AmidInv(p) /\ RestorerOpens(p)
    BY <1>4 DEF FilesInv
  <2>2. proc[p].pc # "idle" /\ pc # "verified"
    BY <1>4 DEF OpenedAs
  <2> QED
    BY <1>2, <2>1, <2>2 DEF AmidInv, RestorerOpens, RootIs, RootOpens, files
<1> QED
  BY <1>2, <1>3, <1>4, OnlyProcess

LEMMA EmptyFacts ==
  ASSUME NEW A \in SUBSET Restorer
  PROVE  /\ EmptyDatabase(A) \in Database
         /\ EmptyDatabase(A).installation = 0 /\ EmptyDatabase(A).state = "none"
         /\ EmptyDatabase(A).guard = FALSE /\ EmptyDatabase(A).rows = None
         /\ EmptyDatabase(A).audited = FALSE /\ EmptyDatabase(A).begun = None
         /\ EmptyDatabase(A).amid = A
  BY DEF EmptyDatabase, Database

LEMMA OpenedNew ==
  ASSUME FilesInv, NEW p \in Process, NEW pc \in Pcs, OpenedAs(p, pc),
         NEW d \in 1..MaxFiles, \A o \in Process : proc[o].handle # d,
         path = None, path' = d, root' = root,
         disk' = [disk EXCEPT ![d] = EmptyDatabase(Restoring)], Handed(p, d, pc)
  PROVE  FilesInv'
<1> DEFINE e == EmptyDatabase(Restoring)
<1>1. FilesTyped /\ d # None /\ Restoring \in SUBSET Restorer
  BY AbsenceAssumption, SMTT(60) DEF FilesInv, Restoring
<1>2. /\ proc' \in [Process -> ProcessState] /\ proc'[p].pc = pc
      /\ \A o \in Process : o # p => proc'[o] = proc[o]
  BY <1>1, HandedFacts
<1>3. /\ e \in Database /\ e.installation = 0 /\ e.state = "none" /\ e.guard = FALSE
      /\ e.rows = None /\ e.audited = FALSE /\ e.begun = None /\ e.amid = Restoring
  BY <1>1, EmptyFacts
<1> HIDE DEF e
<1>4. /\ disk' \in [1..MaxFiles -> Database] /\ disk'[d] = e
      /\ \A g \in 1..MaxFiles : g # d => disk'[g] = disk[g]
  BY <1>1, <1>3 DEF FilesTyped, e
<1>5. FilesTyped'
  BY <1>1, <1>2, <1>4 DEF FilesTyped
<1>6. /\ p \in Starter => StarterInv(p)' /\ StarterOpens(p)'
      /\ p \in Restorer => RestorerInv(p)' /\ HolderInv(p)'
  BY OpenedOwn
<1>7. ASSUME NEW o \in Starter
      PROVE  StarterInv(o)' /\ StarterOpens(o)'
  <2>1. CASE o # p
    <3>1. proc'[o] = proc[o] /\ proc[o].handle # d /\ StarterInv(o)
      BY <1>2, <2>1, ProcessApart DEF FilesInv
    <3> QED
      BY <3>1 DEF StarterInv, StarterOpens
  <2> QED
    BY <1>6, <2>1
<1>8. ASSUME NEW o \in Restorer
      PROVE  RestorerInv(o)' /\ HolderInv(o)'
  <2>1. CASE o # p
    <3>1. proc'[o] = proc[o] /\ proc[o].handle # d /\ RestorerInv(o) /\ HolderInv(o)
      BY <1>2, <2>1, ProcessApart DEF FilesInv
    <3>2. RestorerInv(o)'
      BY <3>1 DEF RestorerInv
    <3>3. HolderInv(o)'
      <4>1. CASE proc[o].pc \in Holding
        <5>1. disk'[proc[o].handle] = disk[proc[o].handle]
          BY <1>4, <3>1, <4>1 DEF RestorerInv, Staging
        <5> QED
          BY <3>1, <5>1 DEF HolderInv
      <4> QED
        BY <3>1, <4>1 DEF HolderInv
    <3> QED
      BY <3>2, <3>3
  <2> QED
    BY <1>6, <2>1
<1>9. ASSUME NEW o \in Restorer
      PROVE  AmidInv(o)' /\ RestorerOpens(o)'
  <2>1. proc'[o].pc # "idle" => o \in Restoring
    <3>1. CASE o = p
      BY <3>1 DEF OpenedAs, Restoring
    <3>2. CASE o # p
      BY <1>2, <3>2, ProcessApart DEF Restoring
    <3> QED
      BY <3>1, <3>2
  <2>2. AmidInv(o)'
    BY <1>3, <1>4, <2>1 DEF AmidInv
  <2>3. ~(proc'[o].pc = "verified" /\ proc'[o].handle = d)
    <3>1. CASE o = p
      BY <1>2, <3>1 DEF OpenedAs
    <3>2. CASE o # p
      BY <1>2, <3>2, ProcessApart
    <3> QED
      BY <3>1, <3>2
  <2>4. RestorerOpens(o)'
    BY <1>3, <1>4, <2>3, ProcessApart DEF RestorerOpens
  <2> QED
    BY <2>2, <2>4
<1>10. ASSUME NEW g \in 1..MaxFiles
       PROVE  DatabaseInv(g)'
  <2>1. CASE g = d
    BY <1>3, <1>4, <2>1, ProcessApart DEF DatabaseInv
  <2>2. CASE g # d
    <3>1. DatabaseInv(g) /\ disk'[g] = disk[g]
      BY <1>4, <2>2 DEF FilesInv
    <3> QED
      BY <3>1 DEF DatabaseInv
  <2> QED
    BY <2>1, <2>2
<1>11. PathOpens'
  BY <1>3, <1>4 DEF PathOpens
<1> QED
  BY <1>5, <1>7, <1>8, <1>9, <1>10, <1>11 DEF FilesInv

\* SqliteStore::open, the database being there or not.
LEMMA OpenKeeps ==
  ASSUME FilesInv, NEW p \in Process, NEW pc \in Pcs, OpenedAs(p, pc), open_store(p, pc)
  PROVE  FilesInv'
<1>1. CASE path # None
  <2>1. Handed(p, path, pc) /\ UNCHANGED files
    BY <1>1 DEF open_store, Handed, files
  <2> QED
    BY <1>1, <2>1, OpenedThere
<1>2. CASE path = None
  <2> DEFINE d == CHOOSE f \in FreeFiles : \A g \in FreeFiles : f <= g
  <2>1. FreeFiles # {} /\ FreeFiles \subseteq Nat
    BY <1>2, SMTT(60) DEF open_store, FreeFiles, FilesInv, FilesTyped
  <2>2. d \in FreeFiles
    BY <2>1, LeastNumber
  <2>3. /\ path' = d /\ root' = root /\ disk' = [disk EXCEPT ![d] = EmptyDatabase(Restoring)]
        /\ Handed(p, d, pc)
    BY <1>2 DEF open_store, Handed
  <2> HIDE DEF d
  <2>4. d \in 1..MaxFiles /\ \A o \in Process : proc[o].handle # d
    BY <2>2 DEF FreeFiles, FilesInv, FilesTyped
  <2> QED
    BY <1>2, <2>3, <2>4, OpenedNew
<1> QED
  BY <1>1, <1>2

LEMMA StoreKeeps ==
  ASSUME FilesInv
  PROVE  /\ \A p \in Starter : start(p) => FilesInv'
         /\ \A r \in Restorer : stage_store(r) \/ reopen_creates(r) => FilesInv'
<1>1. {"opened", "staged", "removing database"} \subseteq Pcs
  BY DEF Pcs, Starting, Rooting, Staging
<1>2. ASSUME NEW p \in Starter, start(p)
      PROVE  FilesInv'
  <2>1. OpenedAs(p, "opened") /\ open_store(p, "opened")
    BY <1>2, ProcessApart DEF OpenedAs, start
  <2> QED
    BY <1>1, <2>1, ProcessApart, OpenKeeps
<1>3. ASSUME NEW r \in Restorer, stage_store(r)
      PROVE  FilesInv'
  <2>1. OpenedAs(r, "staged") /\ open_store(r, "staged")
    BY <1>3, ProcessApart DEF OpenedAs, stage_store
  <2> QED
    BY <1>1, <2>1, ProcessApart, OpenKeeps
<1>4. ASSUME NEW r \in Restorer, reopen_creates(r)
      PROVE  FilesInv'
  <2>1. OpenedAs(r, "removing database") /\ open_store(r, "removing database")
    BY <1>4, ProcessApart DEF OpenedAs, reopen_creates
  <2> QED
    BY <1>1, <2>1, ProcessApart, OpenKeeps
<1> QED
  BY <1>2, <1>3, <1>4

\* RestoreDestinationCleanup: nothing is at the path, or what was there.
LEMMA RemoveDatabaseKeeps ==
  ASSUME FilesInv, NEW r \in Restorer, remove_database(r)
  PROVE  FilesInv'
<1>1. /\ "removing root" \in Pcs
      /\ "removing root" \notin Starting \union Rooting \union Staging \union Holding
  BY DEF Pcs, Starting, Rooting, Staging, Holding
<1>2. /\ proc[r].pc = "removing database" /\ Goto(r, "removing root")
      /\ root' = root /\ disk' = disk /\ path' \in {path, None}
  BY DEF remove_database
<1>3. CASE path' = path
  BY <1>1, <1>2, <1>3, RestorerGoes DEF files
<1>4. CASE path' = None
  <2>1. FilesTyped /\ r \in Process /\ r \notin Starter
    BY ProcessApart DEF FilesInv
  <2>2. /\ proc' \in [Process -> ProcessState]
        /\ proc'[r].pc = "removing root" /\ proc'[r].archive = proc[r].archive
        /\ \A o \in Process : o # r => proc'[o] = proc[o]
    BY <1>1, <1>2, <2>1, GotoFacts
  <2>3. FilesTyped'
    BY <1>2, <1>4, <2>1, <2>2 DEF FilesTyped
  <2>4. ASSUME NEW o \in Starter
        PROVE  StarterInv(o)' /\ StarterOpens(o)'
    <3>1. proc'[o] = proc[o] /\ StarterInv(o)
      BY <2>1, <2>2, ProcessApart DEF FilesInv
    <3> QED
      BY <1>4, <3>1 DEF StarterInv, StarterOpens
  <2>5. ASSUME NEW o \in Restorer
        PROVE  RestorerInv(o)' /\ HolderInv(o)' /\ AmidInv(o)' /\ RestorerOpens(o)'
    <3>1. RestorerInv(o) /\ HolderInv(o)
      BY DEF FilesInv
    <3>2. AmidInv(o)' /\ RestorerOpens(o)'
      BY <1>4 DEF AmidInv, RestorerOpens
    <3>3. RestorerInv(o)' /\ HolderInv(o)'
      <4>1. CASE o = r
        BY <1>1, <1>2, <2>2, <3>1, <4>1 DEF RestorerInv, HolderInv
      <4>2. CASE o # r
        <5>1. proc'[o] = proc[o]
          BY <2>2, <4>2, ProcessApart
        <5> QED
          BY <1>2, <3>1, <5>1 DEF RestorerInv, HolderInv
      <4> QED
        BY <4>1, <4>2
    <3> QED
      BY <3>2, <3>3
  <2>6. ASSUME NEW d \in 1..MaxFiles
        PROVE  DatabaseInv(d)'
    <3>1. DatabaseInv(d)
      BY DEF FilesInv
    <3> QED
      BY <1>2, <3>1 DEF DatabaseInv
  <2>7. PathOpens'
    BY <1>4 DEF PathOpens
  <2> QED
    BY <2>3, <2>4, <2>5, <2>6, <2>7 DEF FilesInv
<1> QED
  BY <1>2, <1>3, <1>4

-----------------------------------------------------------------------------
(* Steps that write to a database.                                         *)

\* A database that no other restore began is written to.
LEMMA WrittenDatabase ==
  ASSUME FilesInv, NEW p \in Process, NEW d \in 1..MaxFiles,
         root' = root, path' = path, disk' \in [1..MaxFiles -> Database],
         \A g \in 1..MaxFiles : g # d => disk'[g] = disk[g],
         disk'[d].amid = disk[d].amid,
         \A o \in Restorer : o # p => disk[d].begun # o /\ disk'[d].begun # o,
         proc' \in [Process -> ProcessState],
         \A o \in Process : o # p => proc'[o] = proc[o],
         p \in Starter => StarterInv(p)' /\ StarterOpens(p)',
         p \in Restorer => RestorerInv(p)' /\ HolderInv(p)' /\ AmidInv(p)' /\ RestorerOpens(p)',
         DatabaseInv(d)',
         path = d /\ disk[d].amid = {} /\ disk'[d].installation # 0 => RootOpens(disk[d])'
  PROVE  FilesInv'
<1>1. FilesTyped'
  BY DEF FilesInv, FilesTyped
<1>2. path # None => path \in 1..MaxFiles /\ disk'[path].amid = disk[path].amid
  <2>1. path # None => path \in 1..MaxFiles
    BY DEF FilesInv, FilesTyped
  <2> QED
    BY <2>1
<1>3. ASSUME NEW o \in Starter
      PROVE  StarterInv(o)' /\ StarterOpens(o)'
  <2>1. CASE o # p
    <3>1. proc'[o] = proc[o] /\ StarterInv(o) /\ StarterOpens(o)
      BY <2>1, ProcessApart DEF FilesInv
    <3> QED
      BY <1>2, <3>1 DEF StarterInv, StarterOpens, RootIs, RootOpens
  <2> QED
    BY <2>1
<1>4. ASSUME NEW o \in Restorer
      PROVE  RestorerInv(o)' /\ HolderInv(o)' /\ AmidInv(o)' /\ RestorerOpens(o)'
  <2>1. CASE o # p
    <3>1. /\ proc'[o] = proc[o]
          /\ RestorerInv(o) /\ HolderInv(o) /\ AmidInv(o) /\ RestorerOpens(o)
      BY <2>1, ProcessApart DEF FilesInv
    <3>2. RestorerInv(o)' /\ AmidInv(o)'
      BY <1>2, <3>1 DEF RestorerInv, AmidInv
    <3>3. HolderInv(o)'
      <4>1. CASE proc[o].pc \in Holding
        <5>1. proc[o].handle \in 1..MaxFiles /\ proc[o].handle # d
          BY <2>1, <3>1, <4>1 DEF RestorerInv, HolderInv, Staging
        <5>2. disk'[proc[o].handle] = disk[proc[o].handle]
          BY <5>1
        <5> QED
          BY <3>1, <5>2 DEF HolderInv
      <4> QED
        BY <3>1, <4>1 DEF HolderInv
    <3>4. RestorerOpens(o)'
      <4>1. CASE path = None
        BY <4>1 DEF RestorerOpens
      <4>2. CASE path # None /\ path # d
        <5>1. disk'[path] = disk[path]
          BY <1>2, <4>2
        <5> QED
          BY <3>1, <5>1 DEF RestorerOpens, RootIs, RootOpens
      <4>3. CASE path = d
        BY <1>2, <2>1, <3>1, <4>3 DEF RestorerOpens, RootIs, RootOpens
      <4> QED
        BY <4>1, <4>2, <4>3
    <3> QED
      BY <3>2, <3>3, <3>4
  <2> QED
    BY <2>1
<1>5. ASSUME NEW g \in 1..MaxFiles
      PROVE  DatabaseInv(g)'
  <2>1. CASE g # d
    <3>1. DatabaseInv(g) /\ disk'[g] = disk[g]
      BY <2>1 DEF FilesInv
    <3> QED
      BY <3>1 DEF DatabaseInv
  <2> QED
    BY <2>1
<1>6. PathOpens'
  <2>1. PathOpens
    BY DEF FilesInv
  <2>2. CASE path # None /\ path # d
    <3>1. disk'[path] = disk[path]
      BY <1>2, <2>2
    <3> QED
      BY <2>1, <3>1 DEF PathOpens, RootIs, RootOpens
  <2>3. CASE path = d
    BY <2>3 DEF PathOpens
  <2> QED
    BY <2>2, <2>3 DEF PathOpens
<1> QED
  BY <1>1, <1>3, <1>4, <1>5, <1>6 DEF FilesInv

Bootstrapped(p, d, guard) ==
    /\ disk' \in [1..MaxFiles -> Database]
    /\ \A g \in 1..MaxFiles : g # d => disk'[g] = disk[g]
    /\ disk'[d].installation = proc[p].id.installation
    /\ disk'[d].vault = proc[p].id.vault
    /\ disk'[d].state = "initializing" /\ disk'[d].guard = guard /\ disk'[d].begun = p
    /\ disk'[d].rows = disk[d].rows /\ disk'[d].audited = disk[d].audited
    /\ disk'[d].amid = disk[d].amid

LEMMA BootstrapFacts ==
  ASSUME FilesTyped, NEW p \in Process, NEW guard \in BOOLEAN, NEW d \in 1..MaxFiles,
         d = proc[p].handle, proc[p].id \in KeyFor, disk' = Bootstrap(p, guard)
  PROVE  Bootstrapped(p, d, guard)
<1> DEFINE i == proc[p].id.installation
           v == proc[p].id.vault
           e == [disk[d] EXCEPT !.installation = i, !.vault = v, !.state = "initializing",
                                !.guard = guard, !.begun = p]
<1>1. i \in Nat /\ v \in Nat \union {None}
  BY DEF KeyFor
<1>2. disk[d] \in Database /\ disk \in [1..MaxFiles -> Database]
  BY DEF FilesTyped
<1>3. Bootstrap(p, guard) = [disk EXCEPT ![d] = e]
  BY <1>2 DEF Bootstrap
<1> HIDE DEF i, v
<1>4. /\ e \in Database /\ e.installation = i /\ e.vault = v /\ e.state = "initializing"
      /\ e.guard = guard /\ e.begun = p
  BY <1>1, <1>2 DEF Database
<1>5. e.rows = disk[d].rows /\ e.audited = disk[d].audited /\ e.amid = disk[d].amid
  BY <1>1, <1>2 DEF Database
<1> HIDE DEF e
<1>6. disk' \in [1..MaxFiles -> Database] /\ disk'[d] = e
      /\ \A g \in 1..MaxFiles : g # d => disk'[g] = disk[g]
  BY <1>2, <1>3, <1>4
<1> QED
  BY <1>4, <1>5, <1>6 DEF i, v, Bootstrapped

\* begin_initialization: the first to begin writes the key that is in the file.
LEMMA BeginInitializationKeeps ==
  ASSUME FilesInv, NEW p \in Starter, begin_initialization(p)
  PROVE  FilesInv'
<1>1. FilesTyped /\ p \in Process /\ p \notin Restorer /\ StarterInv(p) /\ StarterOpens(p)
  BY ProcessApart DEF FilesInv
<1>2. /\ proc[p].pc = "rooted" /\ Goto(p, "begun") /\ root' = root /\ path' = path
      /\ "begun" \in Pcs
  BY DEF begin_initialization, Pcs, Starting
<1>3. proc[p].handle \in 1..MaxFiles /\ proc[p].id \in KeyFor
  BY <1>1, <1>2 DEF StarterInv
<1> PICK d \in 1..MaxFiles : d = proc[p].handle
  BY <1>3
<1>4. /\ proc' \in [Process -> ProcessState]
      /\ proc'[p].pc = "begun" /\ proc'[p].handle = d /\ proc'[p].id = proc[p].id
      /\ \A o \in Process : o # p => proc'[o] = proc[o]
  BY <1>1, <1>2, GotoFacts
<1>5. StarterInv(p)'
  BY <1>3, <1>4 DEF StarterInv, Starting
<1>6. CASE disk[d].installation = 0
  <2>1. disk' = Bootstrap(p, FALSE)
    BY <1>6 DEF begin_initialization
  <2>2. /\ disk' \in [1..MaxFiles -> Database]
        /\ \A g \in 1..MaxFiles : g # d => disk'[g] = disk[g]
        /\ disk'[d].installation = proc[p].id.installation
        /\ disk'[d].vault = proc[p].id.vault
        /\ disk'[d].state = "initializing" /\ disk'[d].guard = FALSE /\ disk'[d].begun = p
        /\ disk'[d].rows = disk[d].rows /\ disk'[d].audited = disk[d].audited
        /\ disk'[d].amid = disk[d].amid
    <3>1. FALSE \in BOOLEAN
      OBVIOUS
    <3>2. Bootstrapped(p, d, FALSE)
      BY <1>1, <1>3, <2>1, <3>1, BootstrapFacts
    <3> QED
      BY <3>2 DEF Bootstrapped
  <2>3. disk[d].begun = None /\ disk[d].rows = None
    BY <1>3, <1>6 DEF FilesInv, DatabaseInv
  <2>4. \A o \in Restorer : o # p => disk[d].begun # o /\ disk'[d].begun # o
    BY <2>2, <2>3, ProcessApart
  <2>5. proc[p].id.installation # 0 /\ p # None
    BY <1>1, <1>3, ProcessApart DEF KeyFor
  <2>6. DatabaseInv(d)'
    BY <1>1, <2>2, <2>3, <2>5 DEF DatabaseInv
  <2>7. path = d /\ disk[d].amid = {} => RootOpens(proc[p].id)
    <3>1. d # None
      BY <1>1, <1>3, DatabaseFacts
    <3> QED
      BY <1>1, <1>2, <3>1 DEF StarterOpens
  <2>8. path = d /\ disk[d].amid = {} /\ disk'[d].installation # 0 => RootOpens(disk[d])'
    BY <1>2, <2>2, <2>7 DEF RootOpens, RootIs
  <2>9. StarterOpens(p)'
    <3>1. path = d \/ path # d
      OBVIOUS
    <3> QED
      BY <1>2, <1>4, <2>2, <2>7 DEF StarterOpens, RootIs, RootOpens
  <2> QED
    BY <1>1, <1>2, <1>3, <1>4, <1>5, <2>2, <2>4, <2>6, <2>8, <2>9, WrittenDatabase
<1>7. CASE disk[d].installation # 0
  <2>1. UNCHANGED files
    BY <1>7 DEF begin_initialization, files
  <2>2. StarterOpens(p)'
    BY <1>1, <1>2, <1>4, <2>1 DEF StarterOpens, RootIs, RootOpens, files
  <2> QED
    BY <1>1, <1>4, <1>5, <2>1, <2>2, OnlyProcess
<1> QED
  BY <1>6, <1>7

\* begin_restore_initialization: the guard comes with the bootstrap.
LEMMA BeginRestoreInitializationKeeps ==
  ASSUME FilesInv, NEW r \in Restorer, begin_restore_initialization(r)
  PROVE  FilesInv'
<1>1. /\ FilesTyped /\ r \in Process /\ r \notin Starter /\ r # None
      /\ RestorerInv(r) /\ AmidInv(r) /\ RestorerOpens(r)
  BY ProcessApart DEF FilesInv
<1>2. /\ proc[r].pc = "staged" /\ Goto(r, "guarded") /\ root' = root /\ path' = path
      /\ disk[proc[r].handle].installation = 0 /\ disk' = Bootstrap(r, TRUE)
  BY DEF begin_restore_initialization
<1>3. "guarded" \in Pcs /\ "staged" \in Staging /\ "staged" \in Rooting
  BY DEF Pcs, Staging, Rooting, Holding
<1>4. /\ proc[r].handle \in 1..MaxFiles /\ proc[r].id \in KeyFor
      /\ proc[r].archive \in UploadsReceived
  BY <1>1, <1>2, <1>3 DEF RestorerInv
<1> PICK d \in 1..MaxFiles : d = proc[r].handle
  BY <1>4
<1>5. /\ proc' \in [Process -> ProcessState]
      /\ proc'[r].pc = "guarded" /\ proc'[r].handle = d /\ proc'[r].id = proc[r].id
      /\ proc'[r].archive = proc[r].archive
      /\ \A o \in Process : o # r => proc'[o] = proc[o]
  BY <1>1, <1>2, <1>3, GotoFacts
<1>6. disk[d].begun = None /\ disk[d].rows = None
  BY <1>2, <1>4 DEF FilesInv, DatabaseInv
<1>7. /\ disk' \in [1..MaxFiles -> Database]
      /\ \A g \in 1..MaxFiles : g # d => disk'[g] = disk[g]
      /\ disk'[d].installation = proc[r].id.installation
      /\ disk'[d].vault = proc[r].id.vault
      /\ disk'[d].state = "initializing" /\ disk'[d].guard = TRUE /\ disk'[d].begun = r
      /\ disk'[d].amid = disk[d].amid
  <2>1. TRUE \in BOOLEAN
    OBVIOUS
  <2>2. Bootstrapped(r, d, TRUE)
    BY <1>1, <1>2, <1>4, <2>1, BootstrapFacts
  <2> QED
    BY <2>2 DEF Bootstrapped
<1>8. \A o \in Restorer : o # r => disk[d].begun # o /\ disk'[d].begun # o
  BY <1>6, <1>7, ProcessApart
<1>9. proc[r].id.installation # 0
  BY <1>4 DEF KeyFor
<1>10. DatabaseInv(d)'
  BY <1>1, <1>7, <1>9 DEF DatabaseInv
<1>11. path # None => r \in disk[path].amid /\ disk'[path].amid = disk[path].amid
  <2>1. path # None => path \in 1..MaxFiles
    BY <1>1 DEF FilesTyped
  <2>2. "staged" # "idle"
    OBVIOUS
  <2> QED
    BY <1>1, <1>2, <1>7, <2>1, <2>2 DEF AmidInv
<1>12. path = d /\ disk[d].amid = {} /\ disk'[d].installation # 0 => RootOpens(disk[d])'
  <2>1. d # None
    BY <1>1, <1>4, DatabaseFacts
  <2> QED
    BY <1>11, <2>1
<1>13. RestorerInv(r)'
  BY <1>4, <1>5 DEF RestorerInv, Rooting, Staging, Holding, Starting
<1>14. HolderInv(r)'
  BY <1>5, <1>7 DEF HolderInv
<1>15. AmidInv(r)'
  BY <1>2, <1>11 DEF AmidInv
<1>16. RestorerOpens(r)'
  <2>1. CASE path # None /\ path # d
    <3>1. disk'[path] = disk[path]
      BY <1>1, <1>7, <2>1 DEF FilesTyped
    <3> QED
      BY <1>1, <1>2, <1>5, <3>1 DEF RestorerOpens
  <2>2. CASE path = d
    BY <1>2, <1>5, <1>7, <2>2 DEF RestorerOpens
  <2> QED
    BY <1>2, <2>1, <2>2 DEF RestorerOpens
<1> QED
  BY <1>1, <1>2, <1>4, <1>5, <1>7, <1>8, <1>10, <1>12, <1>13, <1>14, <1>15, <1>16,
     WrittenDatabase

\* activate_initialization: a vault that a restore began has its guard.
LEMMA ActivateKeeps ==
  ASSUME FilesInv, NEW p \in Starter, activate_initialization(p)
  PROVE  FilesInv'
<1>1. FilesTyped /\ p \in Process /\ p \notin Restorer /\ StarterInv(p)
  BY ProcessApart DEF FilesInv
<1>2. /\ proc[p].pc = "begun" /\ Stop(p) /\ root' = root /\ path' = path
      /\ activate_initialization_kind(proc[p].handle, FALSE)
  BY DEF activate_initialization
<1>3. proc[p].handle \in 1..MaxFiles
  BY <1>1, <1>2 DEF StarterInv
<1> PICK d \in 1..MaxFiles : d = proc[p].handle
  BY <1>3
<1>4. /\ proc' \in [Process -> ProcessState] /\ proc'[p].pc = "idle" /\ proc'[p].handle = 0
      /\ \A o \in Process : o # p => proc'[o] = proc[o]
  BY <1>1, <1>2, StopFacts
<1> DEFINE e == [disk[d] EXCEPT !.state = "ready"]
<1>5. disk[d] \in Database /\ disk \in [1..MaxFiles -> Database] /\ DatabaseInv(d)
  BY <1>1 DEF FilesTyped, FilesInv
<1>6. /\ e \in Database /\ e.state = "ready" /\ e.installation = disk[d].installation
      /\ e.vault = disk[d].vault /\ e.guard = disk[d].guard /\ e.rows = disk[d].rows
      /\ e.audited = disk[d].audited /\ e.begun = disk[d].begun /\ e.amid = disk[d].amid
  BY <1>5 DEF Database
<1>7. disk' = [disk EXCEPT ![d] = e]
  BY DEF activate_initialization
<1> HIDE DEF e
<1>8. /\ disk' \in [1..MaxFiles -> Database] /\ disk'[d] = e
      /\ \A g \in 1..MaxFiles : g # d => disk'[g] = disk[g]
  BY <1>5, <1>6, <1>7
<1>9. disk[d].guard = FALSE /\ disk[d].state = "initializing"
  BY <1>2 DEF activate_initialization_kind
<1>10. disk[d].begun \notin Restorer /\ disk[d].installation # 0
  BY <1>5, <1>9 DEF DatabaseInv
<1>11. \A o \in Restorer : o # p => disk[d].begun # o /\ disk'[d].begun # o
  BY <1>6, <1>8, <1>10
<1>12. DatabaseInv(d)'
  <2>1. "ready" # "none" /\ disk'[d].begun \notin Restorer /\ disk'[d].installation # 0
    BY <1>6, <1>8, <1>10
  <2> QED
    BY <1>5, <1>6, <1>8, <2>1 DEF DatabaseInv
<1>13. path = d /\ disk[d].amid = {} /\ disk'[d].installation # 0 => RootOpens(disk[d])'
  <2>1. PathOpens /\ d # None
    BY <1>1, DatabaseFacts DEF FilesInv
  <2>2. path = d /\ disk[d].amid = {} => RootOpens(disk[d])
    BY <1>10, <2>1 DEF PathOpens
  <2>3. RootOpens(disk[d]) => RootOpens(disk[d])'
    BY <1>2, <1>6, <1>8 DEF RootIs, RootOpens
  <2> QED
    BY <2>2, <2>3
<1>14. StarterInv(p)' /\ StarterOpens(p)'
  BY <1>4 DEF StarterInv, StarterOpens, Starting
<1>15. disk'[d].amid = disk[d].amid
  BY <1>6, <1>8
<1> QED
  BY <1>1, <1>2, <1>4, <1>8, <1>11, <1>12, <1>13, <1>14, <1>15, WrittenDatabase

\* A restore writes to the database that it began.
LEMMA HolderWrites ==
  ASSUME FilesInv, NEW r \in Restorer, proc[r].pc \in Holding,
         NEW d \in 1..MaxFiles, d = proc[r].handle, NEW e \in Database,
         disk' = [disk EXCEPT ![d] = e], root' = root, path' = path,
         e.installation = disk[d].installation, e.vault = disk[d].vault,
         e.begun = disk[d].begun, e.amid = disk[d].amid,
         proc' \in [Process -> ProcessState],
         \A o \in Process : o # r => proc'[o] = proc[o],
         proc'[r].handle = d => proc'[r].id = proc[r].id /\ proc'[r].archive = proc[r].archive,
         \/ /\ proc'[r].pc \in Holding /\ proc'[r].pc # "verified" /\ proc'[r].handle = d
            /\ e.state = "initializing" /\ e.guard = TRUE
            /\ proc'[r].pc # "guarded" => e.rows # None
            /\ proc'[r].pc = "audited" => e.audited = TRUE
         \/ /\ proc[r].pc = "verified" /\ proc'[r].pc = "idle"
            /\ e.state = "ready" /\ e.guard = FALSE /\ e.rows # None /\ e.audited = TRUE
  PROVE  FilesInv'
<1>1. /\ FilesTyped /\ r \in Process /\ r \notin Starter /\ r # None
      /\ RestorerInv(r) /\ HolderInv(r) /\ AmidInv(r) /\ RestorerOpens(r)
  BY ProcessApart DEF FilesInv
<1>2. /\ proc[r].id \in KeyFor /\ proc[r].archive \in UploadsReceived
      /\ proc[r].pc # "idle" /\ "verified" # "idle"
  BY <1>1 DEF RestorerInv, Rooting, Staging, Holding
<1>3. /\ disk' \in [1..MaxFiles -> Database] /\ disk'[d] = e
      /\ \A g \in 1..MaxFiles : g # d => disk'[g] = disk[g]
  BY <1>1 DEF FilesTyped
<1>4. /\ disk[d].begun = r /\ disk[d].installation = proc[r].id.installation
      /\ disk[d].vault = proc[r].id.vault
  BY <1>1 DEF HolderInv
<1>5. proc[r].id.installation # 0
  BY <1>2 DEF KeyFor
<1>6. \A o \in Restorer : o # r => disk[d].begun # o /\ disk'[d].begun # o
  BY <1>3, <1>4
<1>7. DatabaseInv(d)'
  <2>1. /\ disk'[d].installation # 0 /\ disk'[d].begun = r
    BY <1>3, <1>4, <1>5
  <2>2. \/ disk'[d].state = "initializing" /\ disk'[d].guard = TRUE
        \/ /\ disk'[d].state = "ready" /\ disk'[d].rows # None /\ disk'[d].audited = TRUE
           /\ disk'[d].guard = FALSE
    BY <1>3
  <2>3. "initializing" # "none" /\ "ready" # "none" /\ "ready" # "initializing"
    OBVIOUS
  <2> QED
    BY <1>1, <2>1, <2>2, <2>3 DEF DatabaseInv
<1>8. d # None
  BY <1>1, DatabaseFacts
<1>9. path # None =>
         /\ r \in disk[path].amid /\ disk'[path].amid = disk[path].amid
         /\ path # d => disk'[path] = disk[path]
  <2>1. path # None => path \in 1..MaxFiles
    BY <1>1 DEF FilesTyped
  <2> QED
    BY <1>1, <1>2, <1>3, <2>1 DEF AmidInv
<1>10. path = d /\ disk[d].amid = {} /\ disk'[d].installation # 0 => RootOpens(disk[d])'
  BY <1>8, <1>9
<1>11. RestorerInv(r)'
  <2>1. CASE proc'[r].pc = "idle"
    BY <2>1 DEF RestorerInv, Rooting, Staging, Holding, Starting
  <2>2. CASE proc'[r].pc \in Holding /\ proc'[r].handle = d
    <3>1. proc'[r].pc \notin Starting
      BY <2>2 DEF Holding, Starting
    <3> QED
      BY <1>2, <2>2, <3>1 DEF RestorerInv
  <2> QED
    BY <2>1, <2>2
<1>12. HolderInv(r)'
  <2>1. CASE proc'[r].pc = "idle"
    BY <2>1 DEF HolderInv, Holding
  <2>2. CASE proc'[r].pc # "idle"
    BY <1>3, <1>4, <2>2 DEF HolderInv
  <2> QED
    BY <2>1, <2>2
<1>13. AmidInv(r)'
  BY <1>9 DEF AmidInv
<1>14. RestorerOpens(r)'
  <2>1. CASE path # None /\ path # d
    <3>1. disk'[path] = disk[path]
      BY <1>9, <2>1
    <3>2. ~(proc'[r].pc = "verified" /\ proc'[r].handle = path')
      BY <2>1
    <3> QED
      BY <1>1, <1>2, <3>1, <3>2 DEF RestorerOpens
  <2>2. CASE path = d
    <3>1. proc'[r].pc # "verified"
      BY <1>2
    <3>2. e.state = "ready" => proc[r].pc = "verified" /\ proc'[r].pc = "idle"
      OBVIOUS
    <3> QED
      BY <1>1, <1>3, <1>4, <1>8, <2>2, <3>1, <3>2
         DEF RestorerOpens, RootIs, RootOpens
  <2> QED
    BY <2>1, <2>2 DEF RestorerOpens
<1>15. disk'[d].amid = disk[d].amid
  BY <1>3
<1> QED
  BY <1>1, <1>3, <1>6, <1>7, <1>10, <1>11, <1>12, <1>13, <1>14, <1>15, WrittenDatabase

LEMMA HolderKeeps ==
  ASSUME FilesInv, NEW r \in Restorer,
         \/ import_portable_snapshot(r, proc[r].archive.logical)
         \/ audit_restore(r) \/ activate_restored_initialization(r)
  PROVE  FilesInv'
<1>1. /\ FilesTyped /\ r \in Process /\ RestorerInv(r) /\ HolderInv(r)
  BY ProcessApart DEF FilesInv
<1>2. proc[r].pc \in Holding
  BY DEF import_portable_snapshot, audit_restore, activate_restored_initialization, Holding
<1>3. proc[r].handle \in 1..MaxFiles /\ proc[r].archive \in UploadsReceived
  BY <1>1, <1>2 DEF RestorerInv, Staging, Holding
<1> PICK d \in 1..MaxFiles : d = proc[r].handle
  BY <1>3
<1>4. disk[d] \in Database /\ DatabaseInv(d)
  BY <1>1 DEF FilesTyped, FilesInv
<1>5. /\ disk[d].begun = r /\ disk[d].state = "initializing"
      /\ proc[r].pc # "guarded" => disk[d].rows # None
      /\ proc[r].pc \in {"audited", "verified"} => disk[d].audited = TRUE
  BY <1>1, <1>2 DEF HolderInv
<1>6. disk[d].guard = TRUE
  BY <1>4, <1>5 DEF DatabaseInv
<1>7. {"imported", "audited"} \subseteq Holding /\ Holding \subseteq Pcs
  BY DEF Holding, Pcs, Rooting, Staging
<1>8. CASE import_portable_snapshot(r, proc[r].archive.logical)
  <2> DEFINE e == [disk[d] EXCEPT !.rows = proc[r].archive.logical]
  <2>1. proc[r].archive.logical \in Imported /\ proc[r].archive.logical # None
    BY <1>3, FormatExact DEF Imported
  <2>2. /\ e \in Database /\ e.rows # None /\ e.state = disk[d].state
        /\ e.guard = disk[d].guard /\ e.installation = disk[d].installation
        /\ e.vault = disk[d].vault /\ e.begun = disk[d].begun /\ e.amid = disk[d].amid
    BY <1>4, <2>1 DEF Database
  <2>3. /\ disk' = [disk EXCEPT ![d] = e] /\ root' = root /\ path' = path
        /\ Goto(r, "imported") /\ proc[r].pc = "guarded"
    BY <1>8 DEF import_portable_snapshot
  <2> HIDE DEF e
  <2>4. /\ proc' \in [Process -> ProcessState]
        /\ proc'[r].pc = "imported" /\ proc'[r].handle = d
        /\ proc'[r].id = proc[r].id /\ proc'[r].archive = proc[r].archive
        /\ \A o \in Process : o # r => proc'[o] = proc[o]
    BY <1>1, <1>7, <2>3, GotoFacts
  <2>5. e.state = "initializing" /\ e.guard = TRUE
    BY <1>5, <1>6, <2>2
  <2>6. "imported" \in Holding /\ "imported" # "verified" /\ "imported" # "audited"
    BY <1>7
  <2> QED
    BY <1>2, <2>2, <2>3, <2>4, <2>5, <2>6, HolderWrites
<1>9. CASE audit_restore(r)
  <2> DEFINE e == [disk[d] EXCEPT !.audited = TRUE]
  <2>1. /\ e \in Database /\ e.audited = TRUE /\ e.rows = disk[d].rows
        /\ e.state = disk[d].state
        /\ e.guard = disk[d].guard /\ e.installation = disk[d].installation
        /\ e.vault = disk[d].vault /\ e.begun = disk[d].begun /\ e.amid = disk[d].amid
    BY <1>4 DEF Database
  <2>2. /\ disk' = [disk EXCEPT ![d] = e] /\ root' = root /\ path' = path
        /\ Goto(r, "audited") /\ proc[r].pc = "imported"
    BY <1>9 DEF audit_restore
  <2> HIDE DEF e
  <2>3. /\ proc' \in [Process -> ProcessState]
        /\ proc'[r].pc = "audited" /\ proc'[r].handle = d
        /\ proc'[r].id = proc[r].id /\ proc'[r].archive = proc[r].archive
        /\ \A o \in Process : o # r => proc'[o] = proc[o]
    BY <1>1, <1>7, <2>2, GotoFacts
  <2>4. "imported" # "guarded" /\ "audited" \in Holding /\ "audited" # "verified"
    BY <1>7
  <2>5. e.state = "initializing" /\ e.guard = TRUE /\ e.rows # None
    BY <1>5, <1>6, <2>1, <2>2, <2>4
  <2> QED
    BY <1>2, <2>1, <2>2, <2>3, <2>4, <2>5, HolderWrites
<1>10. CASE activate_restored_initialization(r)
  <2> DEFINE e == [disk[d] EXCEPT !.state = "ready", !.guard = FALSE]
  <2>1. /\ e \in Database /\ e.audited = disk[d].audited /\ e.rows = disk[d].rows
        /\ e.state = "ready" /\ e.guard = FALSE /\ e.installation = disk[d].installation
        /\ e.vault = disk[d].vault /\ e.begun = disk[d].begun /\ e.amid = disk[d].amid
    BY <1>4 DEF Database
  <2>2. /\ root' = root /\ path' = path /\ Stop(r) /\ proc[r].pc = "verified"
    BY <1>10 DEF activate_restored_initialization
  <2>3. disk' = [disk EXCEPT ![d] = e]
    BY <1>1, <1>10 DEF activate_restored_initialization, FilesTyped
  <2> HIDE DEF e
  <2>4. /\ proc' \in [Process -> ProcessState] /\ proc'[r].pc = "idle" /\ proc'[r].handle = 0
        /\ \A o \in Process : o # r => proc'[o] = proc[o]
    BY <1>1, <2>2, StopFacts
  <2>5. "verified" # "guarded" /\ 0 # d
    BY InstallationAssumption, SMTT(60)
  <2>6. e.rows # None /\ e.audited = TRUE
    BY <1>5, <2>1, <2>2, <2>5
  <2> QED
    BY <1>2, <2>1, <2>2, <2>3, <2>4, <2>5, <2>6, HolderWrites
<1> QED
  BY <1>8, <1>9, <1>10

-----------------------------------------------------------------------------
(* All the steps of a start and of a restore.                              *)

LEMMA StartupKeeps ==
  ASSUME FilesInv, NEW p \in Starter, Startup(p)
  PROVE  FilesInv'
<1>1. CASE start_refused(p) \/ start_ends(p)
  <2>1. Stop(p) /\ UNCHANGED files
    BY <1>1 DEF start_refused, start_ends, files
  <2> QED
    BY <2>1, ProcessApart, StopKeeps
<1> QED
  BY <1>1, StoreKeeps, LoadKeeps, CreateRootKeeps, WriteRootKeeps, BeginInitializationKeeps,
     ActivateKeeps DEF Startup

LEMMA RestoreKeeps ==
  ASSUME FilesInv, NEW r \in Restorer, restore(r)
  PROVE  FilesInv'
<1>1. ArchivedVault \in Nat
  BY DEF ArchivedVault
<1>2. decoded(r) \/ Restore(r, ArchivedVault, proc[r].archive.logical)
  BY DEF restore
<1> QED
  BY <1>1, <1>2, RestorerGoesOn, StageRootKeeps, StageWrittenKeeps, StoreKeeps,
     BeginRestoreInitializationKeeps, HolderKeeps, RemoveDatabaseKeeps, RemoveRootKeeps
     DEF Restore

LEMMA NothingHappens ==
  ASSUME FilesInv, UNCHANGED <<files, proc>>
  PROVE  FilesInv'
<1>1. FilesTyped' /\ proc' = proc /\ UNCHANGED files
  BY DEF FilesInv, FilesTyped, files
<1>2. \A o \in Starter : StarterInv(o)' /\ StarterOpens(o)'
  BY <1>1, OtherStarter
<1>3. \A o \in Restorer :
         RestorerInv(o)' /\ HolderInv(o)' /\ AmidInv(o)' /\ RestorerOpens(o)'
  BY <1>1, OtherRestorer
<1> QED
  BY <1>1, <1>2, <1>3, OtherFiles DEF FilesInv

LEMMA FilesInit ==
  ASSUME InitInstallation
  PROVE  FilesInv
<1>1. EmptyDatabase({}) \in Database /\ Idle \in ProcessState
  <2>1. 0 \in 0..MaxFiles
    BY InstallationAssumption, SMTT(60)
  <2> QED
    BY <2>1, EmptyFacts DEF Idle, ProcessState, Pcs
<1>2. /\ \A d \in 1..MaxFiles : disk[d] = EmptyDatabase({})
      /\ \A p \in Process : proc[p] = Idle
      /\ root = None /\ path = None /\ FilesTyped
  BY <1>1 DEF InitInstallation, FilesTyped
<1>3. ASSUME NEW p \in Starter
      PROVE  StarterInv(p) /\ StarterOpens(p)
  <2>1. proc[p].pc = "idle"
    BY <1>2, ProcessApart, SMTT(60) DEF Idle
  <2> QED
    BY <1>2, <2>1 DEF StarterInv, StarterOpens
<1>4. ASSUME NEW r \in Restorer
      PROVE  RestorerInv(r) /\ HolderInv(r) /\ AmidInv(r) /\ RestorerOpens(r)
  <2>1. proc[r].pc = "idle"
    BY <1>2, ProcessApart, SMTT(60) DEF Idle
  <2> QED
    BY <1>2, <2>1
       DEF RestorerInv, HolderInv, AmidInv, RestorerOpens, Rooting, Staging, Holding, Starting
<1>5. ASSUME NEW d \in 1..MaxFiles
      PROVE  DatabaseInv(d)
  <2>1. {} \in SUBSET Restorer
    OBVIOUS
  <2>2. /\ disk[d].installation = 0 /\ disk[d].state = "none" /\ disk[d].guard = FALSE
        /\ disk[d].rows = None /\ disk[d].audited = FALSE /\ disk[d].begun = None
    BY <1>2, <2>1, EmptyFacts
  <2> QED
    BY <2>2, ProcessApart DEF DatabaseInv
<1> QED
  BY <1>2, <1>3, <1>4, <1>5 DEF FilesInv, PathOpens

-----------------------------------------------------------------------------
(* The rows of the database at the path, and the archive of a restore.     *)

Decoded == Rooting \union {"decoded"}

\* The database at the path has no rows, or those that it had.
RowsKept ==
    path' # None =>
       \/ disk'[path'].rows = None
       \/ path' = path /\ disk'[path'].rows = disk[path'].rows

\* The restore has ended, or goes on with the archive that it decoded.
GoesOn(r) ==
    proc'[r].pc # "idle" =>
       /\ proc'[r].archive = proc[r].archive
       /\ proc'[r].pc \in Decoded => proc[r].pc \in Decoded \/ proc[r].archive.ok

LEMMA OpenRows ==
  ASSUME FilesInv, NEW p \in Process, NEW pc \in Pcs, open_store(p, pc)
  PROVE  /\ RowsKept /\ \A o \in Process : o # p => proc'[o] = proc[o]
         /\ proc'[p].pc = pc /\ proc'[p].archive = proc[p].archive
<1>1. FilesTyped
  BY DEF FilesInv
<1>2. CASE path # None
  <2>1. Handed(p, path, pc) /\ UNCHANGED files /\ path \in 1..MaxFiles
    BY <1>1, <1>2 DEF open_store, Handed, files, FilesTyped
  <2>2. /\ \A o \in Process : o # p => proc'[o] = proc[o]
        /\ proc'[p].pc = pc /\ proc'[p].archive = proc[p].archive
    BY <1>1, <2>1, HandedFacts
  <2> QED
    BY <2>1, <2>2 DEF RowsKept, files
<1>3. CASE path = None
  <2> DEFINE d == CHOOSE f \in FreeFiles : \A g \in FreeFiles : f <= g
  <2>1. FreeFiles # {} /\ FreeFiles \subseteq Nat
    BY <1>1, <1>3, SMTT(60) DEF open_store, FreeFiles, FilesTyped
  <2>2. d \in FreeFiles
    BY <2>1, LeastNumber
  <2>3. /\ path' = d /\ disk' = [disk EXCEPT ![d] = EmptyDatabase(Restoring)]
        /\ Handed(p, d, pc)
    BY <1>3 DEF open_store, Handed
  <2> HIDE DEF d
  <2>4. d \in 1..MaxFiles /\ Restoring \in SUBSET Restorer
    BY <1>1, <2>2 DEF FreeFiles, FilesTyped, Restoring
  <2>5. /\ \A o \in Process : o # p => proc'[o] = proc[o]
        /\ proc'[p].pc = pc /\ proc'[p].archive = proc[p].archive
    BY <1>1, <2>3, <2>4, HandedFacts
  <2>6. disk'[d].rows = None
    <3>1. disk'[d] = EmptyDatabase(Restoring)
      BY <1>1, <2>3, <2>4 DEF FilesTyped
    <3> QED
      BY <2>4, <3>1, EmptyFacts
  <2> QED
    BY <2>3, <2>5, <2>6 DEF RowsKept
<1> QED
  BY <1>2, <1>3

LEMMA StartupRows ==
  ASSUME FilesInv, NEW p \in Starter, Startup(p)
  PROVE  RowsKept /\ \A o \in Process : o # p => proc'[o] = proc[o]
<1>1. FilesTyped /\ p \in Process /\ StarterInv(p)
  BY ProcessApart DEF FilesInv
<1>2. {"opened", "rooted", "begun", "writing root"} \subseteq Pcs
  BY DEF Pcs, Starting
<1>3. CASE start(p)
  BY <1>1, <1>2, <1>3, OpenRows DEF start
<1>4. CASE load_root_key_file(p) \/ create_root(p)
  <2>1. path' = path /\ disk' = disk /\ \E k, pc : Keyed(p, k, pc)
    BY <1>4 DEF load_root_key_file, create_root, create_root_key_file, Keyed
  <2>2. \A o \in Process : o # p => proc'[o] = proc[o]
    BY <1>1, <2>1 DEF FilesTyped, Keyed
  <2> QED
    BY <2>1, <2>2 DEF RowsKept
<1>5. CASE write_root(p)
  <2>1. path' = path /\ disk' = disk /\ Goto(p, "rooted")
    BY <1>5 DEF write_root, write_root_key
  <2>2. \A o \in Process : o # p => proc'[o] = proc[o]
    BY <1>1, <1>2, <2>1, GotoFacts
  <2> QED
    BY <2>1, <2>2 DEF RowsKept
<1>6. CASE start_refused(p) \/ start_ends(p)
  <2>1. path' = path /\ disk' = disk /\ Stop(p)
    BY <1>6 DEF start_refused, start_ends
  <2>2. \A o \in Process : o # p => proc'[o] = proc[o]
    BY <1>1, <2>1, StopFacts
  <2> QED
    BY <2>1, <2>2 DEF RowsKept
<1>7. CASE begin_initialization(p)
  <2>1. /\ path' = path /\ Goto(p, "begun") /\ proc[p].pc = "rooted"
        /\ disk' = IF disk[proc[p].handle].installation = 0 THEN Bootstrap(p, FALSE) ELSE disk
    BY <1>7 DEF begin_initialization
  <2>2. \A o \in Process : o # p => proc'[o] = proc[o]
    BY <1>1, <1>2, <2>1, GotoFacts
  <2>3. proc[p].handle \in 1..MaxFiles /\ proc[p].id \in KeyFor
    BY <1>1, <2>1 DEF StarterInv
  <2> PICK d \in 1..MaxFiles : d = proc[p].handle
    BY <2>3
  <2>4. CASE disk' = disk
    BY <2>1, <2>2, <2>4 DEF RowsKept
  <2>5. CASE disk' = Bootstrap(p, FALSE)
    <3>1. FALSE \in BOOLEAN
      OBVIOUS
    <3>2. Bootstrapped(p, d, FALSE)
      BY <1>1, <2>3, <2>5, <3>1, BootstrapFacts
    <3>3. path # None => path \in 1..MaxFiles
      BY <1>1 DEF FilesTyped
    <3>4. \A g \in 1..MaxFiles : disk'[g].rows = disk[g].rows
      BY <3>2 DEF Bootstrapped
    <3> QED
      BY <2>1, <2>2, <3>3, <3>4 DEF RowsKept
  <2> QED
    BY <2>1, <2>4, <2>5
<1>8. CASE activate_initialization(p)
  <2>1. /\ path' = path /\ Stop(p) /\ proc[p].pc = "begun"
        /\ disk' = [disk EXCEPT ![proc[p].handle].state = "ready"]
    BY <1>8 DEF activate_initialization
  <2>2. \A o \in Process : o # p => proc'[o] = proc[o]
    BY <1>1, <2>1, StopFacts
  <2>3. \A g \in 1..MaxFiles : disk'[g].rows = disk[g].rows
    BY <1>1, <2>1 DEF FilesTyped, Database
  <2>4. path # None => path \in 1..MaxFiles
    BY <1>1 DEF FilesTyped
  <2> QED
    BY <2>1, <2>2, <2>3, <2>4 DEF RowsKept
<1> QED
  BY <1>3, <1>4, <1>5, <1>6, <1>7, <1>8 DEF Startup

LEMMA RestoreRows ==
  ASSUME FilesInv, NEW r \in Restorer, restore(r)
  PROVE  /\ GoesOn(r) /\ \A o \in Process : o # r => proc'[o] = proc[o]
         /\ \/ RowsKept
            \/ /\ path' = path /\ proc[r].pc = "guarded"
               /\ path # None => disk'[path].rows \in {disk[path].rows, proc[r].archive.logical}
<1>1. FilesTyped /\ r \in Process /\ RestorerInv(r) /\ proc[r].pc # "idle"
  BY ProcessApart DEF FilesInv, restore
<1>2. /\ Decoded \union {"removing database", "removing root"} \subseteq Pcs
      /\ "removing database" \notin Decoded /\ "removing root" \notin Decoded
      /\ Rooting \subseteq Decoded /\ Staging \subseteq Rooting /\ Holding \subseteq Staging
  BY DEF Pcs, Decoded, Rooting, Staging, Holding
<1>3. path # None => path \in 1..MaxFiles
  BY <1>1 DEF FilesTyped
<1>4. ASSUME NEW pc \in Pcs, Goto(r, pc),
             pc \in Decoded => proc[r].pc \in Decoded \/ proc[r].archive.ok
      PROVE  GoesOn(r) /\ \A o \in Process : o # r => proc'[o] = proc[o]
  BY <1>1, <1>4, GotoFacts DEF GoesOn
<1>5. ASSUME Stop(r)
      PROVE  GoesOn(r) /\ \A o \in Process : o # r => proc'[o] = proc[o]
  BY <1>1, <1>5, StopFacts DEF GoesOn
<1>6. CASE proc[r].archive.ok /\ decoded(r)
  <2>1. "decoded" \in Pcs /\ Goto(r, "decoded") /\ path' = path /\ disk' = disk
    BY <1>6 DEF Pcs, decoded
  <2> QED
    BY <1>4, <1>6, <2>1 DEF RowsKept
<1>7. CASE stage_root(r, ArchivedVault)
  <2> DEFINE k == [installation |-> FreshId, vault |-> ArchivedVault]
  <2>1. /\ Keyed(r, k, "staging root") /\ path' = path /\ disk' = disk /\ proc[r].pc = "decoded"
    BY <1>7 DEF stage_root, create_root_key_file, Keyed
  <2>2. k \in KeyFor
    BY <1>1, FreshIdIsNew DEF KeyFor, ArchivedVault
  <2>3. "staging root" \in Pcs /\ "decoded" \in Decoded
    BY DEF Pcs, Decoded, Rooting
  <2> HIDE DEF k
  <2>4. proc'[r].archive = proc[r].archive /\ \A o \in Process : o # r => proc'[o] = proc[o]
    BY <1>1, <2>1, <2>2, <2>3, KeyedFacts
  <2> QED
    BY <2>1, <2>3, <2>4 DEF RowsKept, GoesOn
<1>8. CASE stage_root_written(r)
  <2>1. "staged root" \in Pcs /\ proc[r].pc \in Decoded /\ Goto(r, "staged root")
        /\ path' = path /\ disk' = disk
    BY <1>8 DEF Pcs, Decoded, Rooting, stage_root_written, write_root_key
  <2> QED
    BY <1>4, <2>1 DEF RowsKept
<1>9. CASE stage_store(r)
  <2>1. "staged" \in Pcs /\ proc[r].pc \in Decoded /\ open_store(r, "staged")
    BY <1>9 DEF Pcs, Decoded, Rooting, Staging, stage_store
  <2> QED
    BY <1>1, <2>1, OpenRows DEF GoesOn
<1>10. CASE begin_restore_initialization(r)
  <2>1. /\ path' = path /\ Goto(r, "guarded") /\ proc[r].pc = "staged"
        /\ disk' = Bootstrap(r, TRUE)
    BY <1>10 DEF begin_restore_initialization
  <2>2. "guarded" \in Pcs /\ "staged" \in Decoded /\ "staged" \in Rooting /\ "staged" \in Staging
    BY DEF Pcs, Decoded, Rooting, Staging, Holding
  <2>3. proc[r].handle \in 1..MaxFiles /\ proc[r].id \in KeyFor
    BY <1>1, <2>1, <2>2 DEF RestorerInv
  <2> PICK d \in 1..MaxFiles : d = proc[r].handle
    BY <2>3
  <2>4. TRUE \in BOOLEAN
    OBVIOUS
  <2>5. Bootstrapped(r, d, TRUE)
    BY <1>1, <2>1, <2>3, <2>4, BootstrapFacts
  <2>6. \A g \in 1..MaxFiles : disk'[g].rows = disk[g].rows
    BY <2>5 DEF Bootstrapped
  <2> QED
    BY <1>3, <1>4, <2>1, <2>2, <2>6 DEF RowsKept
<1>11. CASE import_portable_snapshot(r, proc[r].archive.logical)
  <2>1. /\ path' = path /\ Goto(r, "imported") /\ proc[r].pc = "guarded"
        /\ disk' = [disk EXCEPT ![proc[r].handle].rows = proc[r].archive.logical]
    BY <1>11 DEF import_portable_snapshot
  <2>2. "imported" \in Pcs /\ "guarded" \in Decoded
    BY DEF Pcs, Decoded, Rooting, Staging, Holding
  <2>3. \A g \in 1..MaxFiles : disk'[g].rows \in {disk[g].rows, proc[r].archive.logical}
    BY <1>1, <2>1 DEF FilesTyped, Database
  <2> QED
    BY <1>3, <1>4, <2>1, <2>2, <2>3
<1>12. CASE audit_restore(r)
  <2>1. /\ path' = path /\ Goto(r, "audited") /\ proc[r].pc = "imported"
        /\ disk' = [disk EXCEPT ![proc[r].handle].audited = TRUE]
    BY <1>12 DEF audit_restore
  <2>2. "audited" \in Pcs /\ "imported" \in Decoded
    BY DEF Pcs, Decoded, Rooting, Staging, Holding
  <2>3. \A g \in 1..MaxFiles : disk'[g].rows = disk[g].rows
    BY <1>1, <2>1 DEF FilesTyped, Database
  <2> QED
    BY <1>3, <1>4, <2>1, <2>2, <2>3 DEF RowsKept
<1>13. CASE verify_restore_staging_reopen(r)
  <2>1. "verified" \in Pcs /\ proc[r].pc \in Decoded /\ Goto(r, "verified")
        /\ path' = path /\ disk' = disk
    BY <1>13 DEF Pcs, Decoded, Rooting, Staging, Holding, verify_restore_staging_reopen
  <2> QED
    BY <1>4, <2>1 DEF RowsKept
<1>14. CASE reopen_creates(r)
  <2>1. "removing database" \in Pcs /\ open_store(r, "removing database")
    BY <1>2, <1>14 DEF reopen_creates
  <2> QED
    BY <1>1, <1>2, <2>1, OpenRows DEF GoesOn
<1>15. CASE activate_restored_initialization(r)
  <2>1. /\ path' = path /\ Stop(r) /\ proc[r].pc = "verified"
        /\ disk' = [disk EXCEPT ![proc[r].handle].state = "ready",
                                ![proc[r].handle].guard = FALSE]
    BY <1>15 DEF activate_restored_initialization
  <2>2. \A g \in 1..MaxFiles : disk'[g].rows = disk[g].rows
    BY <1>1, <2>1, SMTT(60) DEF FilesTyped, Database
  <2> QED
    BY <1>3, <1>5, <2>1, <2>2 DEF RowsKept
<1>16. CASE restore_fails(r)
  BY <1>2, <1>4, <1>16 DEF restore_fails, RowsKept
<1>17. CASE remove_database(r)
  BY <1>2, <1>4, <1>17 DEF remove_database, RowsKept
<1>18. CASE remove_root(r)
  BY <1>5, <1>18 DEF remove_root, RowsKept
<1> QED
  BY <1>6, <1>7, <1>8, <1>9, <1>10, <1>11, <1>12, <1>13, <1>14, <1>15, <1>16, <1>17, <1>18
     DEF restore, Restore

-----------------------------------------------------------------------------
(* The channel.                                                            *)

Staged == [upload : UploadsReceived, copy : Request]

ChannelState ==
    [state : {"none", "open", "closing", "closed", "killed"}, expired : BOOLEAN,
     notified : BOOLEAN, claimed : BOOLEAN, sessions : Nat, reserved : BOOLEAN,
     consumed : BOOLEAN, pending : Staged \union {None}, copy : Request \union {None},
     confirmed : Archive \union {None}, workspace : SUBSET Request, commands : Nat]

RequestState ==
    [pc : {"idle", "claiming", "uploading", "verifying", "confirming", "restoring"},
     upload : UploadsReceived \union {None}]

\* What is verified, and what is staged, was received.
ChannelInv ==
    /\ channel \in ChannelState
    /\ req \in [Request -> RequestState]
    /\ \A q \in Request : req[q].pc = "verifying" => req[q].upload \in UploadsReceived

\* The restore that is under way is that of the channel, of what was confirmed there.
ConfirmedInv ==
    /\ \A r \in Restorer : r # Channel => proc[r].pc = "idle"
    /\ proc[Channel].pc # "idle" => proc[Channel].archive.archive = channel.confirmed
    /\ proc[Channel].pc \in Decoded => proc[Channel].archive.ok
    /\ RestoredIsConfirmed

LEMMA NewChannelFacts ==
  /\ NewChannel \in ChannelState /\ NoRequest \in RequestState /\ NoRequest.pc = "idle"
<1>1. NewChannel \in ChannelState
  BY DEF NewChannel, ChannelState
<1>2. NoRequest \in RequestState /\ NoRequest.pc = "idle"
  BY DEF NoRequest, RequestState
<1> QED
  BY <1>1, <1>2

LEMMA EndedFacts ==
  ASSUME ChannelInv, NEW s \in {"closed", "killed"}, NEW c \in Request \union {None},
         NEW w \in SUBSET Request
  PROVE  Ended(s, c, w) \in ChannelState /\ Ended(s, c, w).confirmed = channel.confirmed
<1>1. /\ NewChannel \in ChannelState /\ s \in {"none", "open", "closing", "closed", "killed"}
      /\ channel.confirmed \in Archive \union {None} /\ channel.commands \in Nat
  BY NewChannelFacts DEF ChannelInv, ChannelState
<1> HIDE DEF NewChannel
<1> QED
  BY <1>1 DEF Ended, ChannelState

LEMMA WaitFacts ==
  ASSUME ChannelInv, NEW q \in Request,
         \/ \E pc \in {"claiming", "uploading", "confirming", "restoring"} : Wait(q, pc)
         \/ Answer(q)
  PROVE  /\ req' \in [Request -> RequestState]
         /\ \A o \in Request : req'[o].pc = "verifying" => req'[o].upload \in UploadsReceived
<1>1. CASE \E pc \in {"claiming", "uploading", "confirming", "restoring"} : Wait(q, pc)
  BY <1>1 DEF ChannelInv, Wait, RequestState
<1>2. CASE Answer(q)
  BY <1>2, NewChannelFacts DEF ChannelInv, Answer
<1> QED
  BY <1>1, <1>2

\* A step of the channel that confirms nothing.
LEMMA ServingKeeps ==
  ASSUME ChannelInv,
         run \/ expire \/ shut_down \/ close \/ remove_staged
  PROVE  ChannelInv' /\ channel'.confirmed = channel.confirmed /\ UNCHANGED <<files, proc>>
<1>1. UNCHANGED <<files, proc, req>>
  BY DEF run, expire, shut_down, close, remove_staged, files
<1>2. channel' \in ChannelState /\ channel'.confirmed = channel.confirmed
  <2>1. channel \in ChannelState
    BY DEF ChannelInv
  <2>2. CASE run
    BY <2>1, <2>2 DEF run, ChannelState
  <2>3. CASE expire
    BY <2>1, <2>3 DEF expire, ChannelState
  <2>4. CASE shut_down
    BY <2>1, <2>4 DEF shut_down, ChannelState
  <2>5. CASE close
    <3>1. channel.copy \in Request \union {None} /\ channel' = Ended("closed", channel.copy, {})
      BY <2>1, <2>5 DEF close, ChannelState
    <3> QED
      BY <3>1, EndedFacts
  <2>6. CASE remove_staged
    BY <2>1, <2>6 DEF remove_staged, ChannelState
  <2> QED
    BY <2>2, <2>3, <2>4, <2>5, <2>6
<1> QED
  BY <1>1, <1>2 DEF ChannelInv

LEMMA ReceivedFacts ==
  /\ Files \subseteq Uploads
  /\ \A f \in Uploads, k \in {Key, WrongKey} : Received(f, k) \in UploadsReceived
  /\ \A f, k : Received(f, k).archive = f.archive_id
  /\ \A f \in Files : f.archive_id \in Archive
<1>1. Files \subseteq Uploads
  BY DEF Uploads
<1>2. \A f \in Uploads, k \in {Key, WrongKey} : Received(f, k) \in UploadsReceived
  BY SMTT(60) DEF UploadsReceived
<1>3. \A f, k : Received(f, k).archive = f.archive_id
  BY DEF Received
<1>4. \A f \in Files : f.archive_id \in Archive
  <2>1. \A a, s, n : write_archive(a, Key, s, n).archive_id = a
    BY DEF write_archive
  <2> QED
    BY <2>1, SMTT(60) DEF Files
<1> QED
  BY <1>1, <1>2, <1>3, <1>4

\* A step of a handler that confirms nothing.
LEMMA HandlerKeeps ==
  ASSUME ChannelInv, NEW q \in Request,
         \/ Claiming(q) \/ Verifying(q) \/ disconnect(q)
         \/ activate_restore(q) \/ activation_answer(q)
         \/ \E a \in Archive : consume_refused(q, a) \/ confirm_refused(q, a)
  PROVE  ChannelInv' /\ channel'.confirmed = channel.confirmed /\ UNCHANGED <<files, proc>>
<1>1. channel \in ChannelState
  BY DEF ChannelInv
<1>2. ASSUME channel' \in ChannelState, channel'.confirmed = channel.confirmed,
             UNCHANGED <<root, path, disk, proc, crashes>>,
             \/ \E pc \in {"claiming", "uploading", "confirming", "restoring"} : Wait(q, pc)
             \/ Answer(q)
      PROVE  ChannelInv' /\ channel'.confirmed = channel.confirmed /\ UNCHANGED <<files, proc>>
  <2>1. /\ req' \in [Request -> RequestState]
        /\ \A o \in Request : req'[o].pc = "verifying" => req'[o].upload \in UploadsReceived
    BY <1>2, WaitFacts
  <2> QED
    BY <1>2, <2>1 DEF ChannelInv, files
<1>3. CASE claim_channel(q)
  BY <1>1, <1>2, <1>3 DEF claim_channel
<1>4. CASE claimed(q)
  <2>1. channel' \in ChannelState /\ channel'.confirmed = channel.confirmed
    <3> DEFINE n == IF channel.claimed THEN channel.sessions ELSE channel.sessions + 1
    <3>1. n \in Nat
      BY <1>1, SMTT(60) DEF ChannelState
    <3>2. channel' = [channel EXCEPT !.claimed = TRUE, !.sessions = n]
      BY <1>4 DEF claimed
    <3> HIDE DEF n
    <3> QED
      BY <1>1, <3>1, <3>2 DEF ChannelState
  <2> QED
    BY <1>2, <1>4, <2>1 DEF claimed
<1>5. CASE verify_archive(q)
  <2>1. channel' \in ChannelState /\ channel'.confirmed = channel.confirmed
    BY <1>1, <1>5 DEF verify_archive, ChannelState
  <2> QED
    BY <1>2, <1>5, <2>1 DEF verify_archive
<1>6. CASE extract_fails(q)
  BY <1>1, <1>2, <1>6 DEF extract_fails
<1>7. ASSUME NEW f \in Uploads, NEW k \in {Key, WrongKey}, receive_upload(q, f, k)
      PROVE  ChannelInv' /\ channel'.confirmed = channel.confirmed /\ UNCHANGED <<files, proc>>
  <2> DEFINE u == Received(f, k)
             s == [pc |-> "verifying", upload |-> u]
  <2>1. u \in UploadsReceived
    BY ReceivedFacts
  <2>2. req' = [req EXCEPT ![q] = s] /\ UNCHANGED <<files, proc>>
    BY <1>7 DEF receive_upload, files
  <2>3. channel' \in ChannelState /\ channel'.confirmed = channel.confirmed
    <3>1. channel' = [channel EXCEPT !.workspace = channel.workspace \union {q}]
      BY <1>7 DEF receive_upload
    <3> QED
      BY <1>1, <3>1 DEF ChannelState
  <2> HIDE DEF u
  <2>4. s \in RequestState /\ s.upload \in UploadsReceived
    BY <2>1 DEF RequestState
  <2> HIDE DEF s
  <2>5. /\ req' \in [Request -> RequestState]
        /\ \A o \in Request : req'[o].pc = "verifying" => req'[o].upload \in UploadsReceived
    BY <2>2, <2>4 DEF ChannelInv
  <2> QED
    BY <2>2, <2>3, <2>5 DEF ChannelInv
<1>8. CASE receive_fails(q)
  <2>1. channel' \in ChannelState /\ channel'.confirmed = channel.confirmed
    BY <1>1, <1>8 DEF receive_fails, ChannelState
  <2> QED
    BY <1>2, <1>8, <2>1 DEF receive_fails
<1>9. CASE refuse_archive(q)
  <2>1. channel' \in ChannelState /\ channel'.confirmed = channel.confirmed
    BY <1>1, <1>9 DEF refuse_archive, release, ChannelState
  <2> QED
    BY <1>2, <1>9, <2>1 DEF refuse_archive
<1>10. CASE stage_archive(q)
  <2>1. [upload |-> req[q].upload, copy |-> q] \in Staged
    BY <1>10 DEF stage_archive, At, ChannelInv, Staged
  <2>2. channel' \in ChannelState /\ channel'.confirmed = channel.confirmed
    BY <1>1, <1>10, <2>1 DEF stage_archive, ChannelState
  <2> QED
    BY <1>2, <1>10, <2>2 DEF stage_archive
<1>11. CASE activate_restore(q) \/ disconnect(q) \/ \E a \in Archive : confirm_refused(q, a)
  BY <1>1, <1>2, <1>11 DEF activate_restore, disconnect, confirm_refused
<1>12. ASSUME NEW a \in Archive, consume_refused(q, a)
       PROVE  ChannelInv' /\ channel'.confirmed = channel.confirmed /\ UNCHANGED <<files, proc>>
  <2>1. channel' \in ChannelState /\ channel'.confirmed = channel.confirmed
    BY <1>1, <1>12 DEF consume_refused, ChannelState
  <2> QED
    BY <1>2, <1>12, <2>1 DEF consume_refused
<1>13. CASE activation_answer(q)
  <2>1. channel' \in ChannelState /\ channel'.confirmed = channel.confirmed
    BY <1>1, <1>13 DEF activation_answer, ChannelState
  <2> QED
    BY <1>2, <1>13, <2>1 DEF activation_answer
<1>14. Claiming(q) => claim_channel(q) \/ claimed(q)
  BY DEF Claiming
<1>15. CASE Verifying(q)
  <2>1. CASE (\E f \in Uploads : receive_upload(q, f, Key))
             \/ (\E f \in Files : receive_upload(q, f, WrongKey))
    BY <1>7, <2>1, ReceivedFacts
  <2> QED
    BY <1>5, <1>6, <1>8, <1>9, <1>10, <1>15, <2>1 DEF Verifying
<1> QED
  BY <1>3, <1>4, <1>11, <1>12, <1>13, <1>14, <1>15

-----------------------------------------------------------------------------
(* All the steps.                                                          *)

IInv == FilesInv /\ ChannelInv /\ ConfirmedInv

\* Nothing is confirmed and nothing restored.
LEMMA ConfirmedStays ==
  ASSUME ConfirmedInv, channel'.confirmed = channel.confirmed, RowsKept,
         \A r \in Restorer : proc'[r] = proc[r]
  PROVE  ConfirmedInv'
<1>1. proc'[Channel] = proc[Channel]
  BY ChannelAssumption
<1>2. RestoredIsConfirmed'
  BY DEF ConfirmedInv, RowsKept, RestoredIsConfirmed
<1> QED
  BY <1>1, <1>2 DEF ConfirmedInv

\* A restore is begun, of what is then confirmed.
LEMMA BeginConfirms ==
  ASSUME IInv, NEW u \in UploadsReceived, begin_restore(Channel, u),
         channel'.confirmed = u.archive
  PROVE  FilesInv' /\ ConfirmedInv'
<1>1. FilesTyped /\ Channel \in Restorer /\ Channel \in Process
  BY ChannelAssumption, ProcessApart DEF IInv, FilesInv
<1>2. FilesInv'
  BY <1>1, BeginKeeps DEF IInv
<1> DEFINE s == [Idle EXCEPT !.pc = "decoding", !.archive = u]
<1>3. s.pc = "decoding" /\ s.archive = u
  BY DEF Idle
<1>4. proc' = [proc EXCEPT ![Channel] = s] /\ path' = None
  BY DEF begin_restore, destination_is_new
<1> HIDE DEF s
<1>5. proc'[Channel] = s /\ \A r \in Restorer : r # Channel => proc'[r] = proc[r]
  BY <1>1, <1>4, ProcessApart DEF FilesTyped
<1>6. "decoding" \notin Decoded
  BY DEF Decoded, Rooting, Staging, Holding
<1> QED
  BY <1>2, <1>3, <1>4, <1>5, <1>6 DEF IInv, ConfirmedInv, RestoredIsConfirmed

LEMMA ConsumeKeeps ==
  ASSUME IInv, NEW q \in Request, NEW a \in Archive, consume(q, a)
  PROVE  IInv'
<1>1. ChannelInv /\ channel \in ChannelState
  BY DEF IInv, ChannelInv
<1>2. channel.pending \in Staged /\ channel.pending.upload.archive = a
  BY <1>1 DEF consume, confirmed_is_staged, ChannelState
<1>3. channel.pending.upload \in UploadsReceived /\ channel.pending.copy \in Request
  BY <1>2 DEF Staged
<1>4. channel' \in ChannelState /\ channel'.confirmed = a
  <2> DEFINE c == channel.pending.copy
  <2>1. channel' = [channel EXCEPT !.consumed = TRUE, !.pending = None, !.copy = c,
                                   !.confirmed = a]
    BY DEF consume
  <2>2. c \in Request
    BY <1>3
  <2> HIDE DEF c
  <2> QED
    BY <1>1, <2>1, <2>2 DEF ChannelState
<1>5. /\ req' \in [Request -> RequestState]
      /\ \A o \in Request : req'[o].pc = "verifying" => req'[o].upload \in UploadsReceived
  BY <1>1, WaitFacts DEF consume
<1>6. begin_restore(Channel, channel.pending.upload)
  BY DEF consume
<1>7. FilesInv' /\ ConfirmedInv'
  BY <1>2, <1>3, <1>4, <1>6, BeginConfirms
<1> QED
  BY <1>4, <1>5, <1>7 DEF IInv, ChannelInv

LEMMA CommandKeeps ==
  ASSUME IInv, NEW f \in Files, restore_command(f)
  PROVE  IInv'
<1>1. ChannelInv /\ channel \in ChannelState
  BY DEF IInv, ChannelInv
<1>2. /\ Received(f, Key) \in UploadsReceived /\ f.archive_id \in Archive
      /\ Received(f, Key).archive = f.archive_id
  BY ReceivedFacts
<1>3. channel' \in ChannelState /\ channel'.confirmed = f.archive_id
  <2>1. /\ channel' = [channel EXCEPT !.confirmed = f.archive_id, !.commands = channel.commands + 1]
        /\ channel.commands + 1 \in Nat
    BY <1>1, SMTT(60) DEF restore_command, ChannelState
  <2> QED
    BY <1>1, <1>2, <2>1 DEF ChannelState
<1>4. begin_restore(Channel, Received(f, Key)) /\ req' = req
  BY DEF restore_command
<1>5. FilesInv' /\ ConfirmedInv'
  BY <1>2, <1>3, <1>4, BeginConfirms
<1> QED
  BY <1>1, <1>3, <1>4, <1>5 DEF IInv, ChannelInv

LEMMA RestoresConfirmed ==
  ASSUME IInv, NEW r \in Restorer, Restores(r)
  PROVE  IInv'
<1>1. FilesInv /\ ChannelInv /\ ConfirmedInv /\ restore(r) /\ channel' = channel /\ req' = req
  BY DEF IInv, Restores
<1>2. /\ GoesOn(r) /\ \A o \in Process : o # r => proc'[o] = proc[o]
      /\ \/ RowsKept
         \/ /\ path' = path /\ proc[r].pc = "guarded"
            /\ path # None => disk'[path].rows \in {disk[path].rows, proc[r].archive.logical}
  BY <1>1, RestoreRows
<1>3. proc[r].pc # "idle" /\ r = Channel
  BY <1>1 DEF ConfirmedInv, restore
<1>4. proc[r].archive \in UploadsReceived
  BY <1>1, <1>3 DEF FilesInv, RestorerInv
<1>5. proc[r].archive.archive = channel.confirmed /\ (proc[r].pc \in Decoded => proc[r].archive.ok)
  BY <1>1, <1>3 DEF ConfirmedInv
<1>6. proc[r].pc = "guarded" => proc[r].archive.logical = Stream[channel.confirmed]
  <2>1. "guarded" \in Decoded
    BY DEF Decoded, Rooting, Staging, Holding
  <2> QED
    BY <1>4, <1>5, <2>1, FormatExact
<1>7. RestoredIsConfirmed'
  BY <1>1, <1>2, <1>6 DEF ConfirmedInv, RestoredIsConfirmed, RowsKept
<1>8. /\ proc'[Channel].pc # "idle" => proc'[Channel].archive.archive = channel'.confirmed
      /\ proc'[Channel].pc \in Decoded => proc'[Channel].archive.ok
  <2>1. "idle" \notin Decoded
    BY DEF Decoded, Rooting, Staging, Holding
  <2> QED
    BY <1>1, <1>2, <1>3, <1>5, <2>1 DEF GoesOn
<1>9. \A o \in Restorer : o # Channel => proc'[o].pc = "idle"
  BY <1>1, <1>2, <1>3, ProcessApart DEF ConfirmedInv
<1>10. FilesInv'
  BY <1>1, RestoreKeeps
<1>11. ChannelInv'
  BY <1>1 DEF ChannelInv
<1> QED
  BY <1>7, <1>8, <1>9, <1>10, <1>11 DEF IInv, ConfirmedInv

LEMMA StopConfirmed ==
  ASSUME IInv, NEW p \in Process, Stop(p), UNCHANGED files, ChannelInv',
         channel'.confirmed = channel.confirmed
  PROVE  IInv'
<1>1. FilesInv /\ FilesTyped /\ ConfirmedInv /\ path' = path /\ disk' = disk
  BY DEF IInv, FilesInv, files
<1>2. FilesInv'
  BY <1>1, StopKeeps
<1>3. proc'[p].pc = "idle" /\ \A o \in Process : o # p => proc'[o] = proc[o]
  BY <1>1, StopFacts
<1>4. RestoredIsConfirmed'
  BY <1>1 DEF ConfirmedInv, RestoredIsConfirmed
<1>5. \A r \in Restorer : r # Channel => proc'[r].pc = "idle"
  BY <1>1, <1>3, ProcessApart DEF ConfirmedInv
<1>6. "idle" \notin Decoded /\ Channel \in Process
  BY ChannelAssumption, ProcessApart DEF Decoded, Rooting, Staging, Holding
<1>7. /\ proc'[Channel].pc # "idle" => proc'[Channel].archive.archive = channel'.confirmed
      /\ proc'[Channel].pc \in Decoded => proc'[Channel].archive.ok
  BY <1>1, <1>3, <1>6 DEF ConfirmedInv
<1> QED
  BY <1>2, <1>4, <1>5, <1>7 DEF IInv, ConfirmedInv

LEMMA QuietKeeps ==
  ASSUME IInv, UNCHANGED <<files, proc>>, ChannelInv', channel'.confirmed = channel.confirmed
  PROVE  IInv'
<1>1. FilesInv /\ ConfirmedInv /\ path' = path /\ disk' = disk /\ proc' = proc
  BY DEF IInv, files
<1>2. FilesInv' /\ RowsKept
  BY <1>1, NothingHappens DEF RowsKept
<1> QED
  BY <1>1, <1>2, ConfirmedStays DEF IInv

LEMMA CrashKeeps ==
  ASSUME IInv,
         \/ channel_crash
         \/ \E p \in Process : crash(p) /\ UNCHANGED <<channel, req>>
  PROVE  IInv'
<1>1. ChannelInv
  BY DEF IInv
<1>2. CASE channel_crash
  <2>1. /\ channel' = Ended("killed", None, channel.workspace) /\ Stop(Channel) /\ UNCHANGED files
        /\ req' = [q \in Request |-> NoRequest] /\ Channel \in Process
    BY <1>2, ChannelAssumption, ProcessApart DEF channel_crash
  <2>2. channel' \in ChannelState /\ channel'.confirmed = channel.confirmed
    <3>1. channel.workspace \in SUBSET Request /\ None \in Request \union {None}
      BY <1>1 DEF ChannelInv, ChannelState
    <3> QED
      BY <1>1, <2>1, <3>1, EndedFacts
  <2>3. ChannelInv'
    <3>1. /\ req' \in [Request -> RequestState]
          /\ \A q \in Request : req'[q].pc = "idle"
      BY <2>1, NewChannelFacts
    <3> QED
      BY <2>2, <3>1 DEF ChannelInv
  <2> QED
    BY <2>1, <2>2, <2>3, StopConfirmed
<1>3. ASSUME NEW p \in Process, crash(p), UNCHANGED <<channel, req>>
      PROVE  IInv'
  <2>1. Stop(p) /\ UNCHANGED files /\ channel' = channel /\ req' = req
    BY <1>3 DEF crash
  <2>2. ChannelInv'
    BY <1>1, <2>1 DEF ChannelInv
  <2> QED
    BY <2>1, <2>2, StopConfirmed
<1> QED
  BY <1>2, <1>3

LEMMA OthersKeep ==
  ASSUME IInv, NEW p \in Starter, Others(p)
  PROVE  IInv'
<1>1. FilesInv /\ ChannelInv /\ ConfirmedInv /\ Startup(p) /\ channel' = channel /\ req' = req
  BY DEF IInv, Others
<1>2. RowsKept /\ \A o \in Process : o # p => proc'[o] = proc[o]
  BY <1>1, StartupRows
<1>3. \A r \in Restorer : proc'[r] = proc[r]
  BY <1>2, ProcessApart
<1>4. FilesInv'
  BY <1>1, StartupKeeps
<1>5. ChannelInv'
  BY <1>1 DEF ChannelInv
<1>6. ConfirmedInv'
  BY <1>1, <1>2, <1>3, ConfirmedStays
<1> QED
  BY <1>4, <1>5, <1>6 DEF IInv

LEMMA InitIInv ==
  ASSUME Init
  PROVE  IInv
<1>1. FilesInv
  BY FilesInit DEF Init
<1>2. path = None /\ \A p \in Process : proc[p].pc = "idle"
  BY DEF Init, InitInstallation, Idle
<1>3. /\ channel \in ChannelState /\ req \in [Request -> RequestState]
      /\ \A q \in Request : req[q].pc = "idle"
  BY NewChannelFacts DEF Init
<1>4. ChannelInv
  BY <1>3 DEF ChannelInv
<1>5. ConfirmedInv
  <2>1. "idle" \notin Decoded /\ Channel \in Process
    BY ChannelAssumption, ProcessApart DEF Decoded, Rooting, Staging, Holding
  <2> QED
    BY <1>2, <2>1, ProcessApart DEF ConfirmedInv, RestoredIsConfirmed
<1> QED
  BY <1>1, <1>4, <1>5 DEF IInv

LEMMA NextIInv ==
  ASSUME IInv, [Next]_vars
  PROVE  IInv'
<1>1. ChannelInv
  BY DEF IInv
<1>2. CASE UNCHANGED vars
  <2>1. ChannelInv' /\ channel'.confirmed = channel.confirmed /\ UNCHANGED <<files, proc>>
    BY <1>1, <1>2 DEF vars, ChannelInv, files
  <2> QED
    BY <2>1, QuietKeeps
<1>3. CASE run \/ expire \/ shut_down \/ close \/ remove_staged
  BY <1>1, <1>3, ServingKeeps, QuietKeeps
<1>4. ASSUME NEW q \in Request,
             Claiming(q) \/ Verifying(q) \/ Activating(q) \/ disconnect(q)
      PROVE  IInv'
  <2>1. CASE \E a \in Archive : consume(q, a)
    BY <2>1, ConsumeKeeps
  <2>2. CASE \/ Claiming(q) \/ Verifying(q) \/ disconnect(q)
             \/ activate_restore(q) \/ activation_answer(q)
             \/ \E a \in Archive : consume_refused(q, a) \/ confirm_refused(q, a)
    <3>1. ChannelInv' /\ channel'.confirmed = channel.confirmed /\ UNCHANGED <<files, proc>>
      BY <1>1, <2>2, HandlerKeeps
    <3> QED
      BY <3>1, QuietKeeps
  <2> QED
    BY <1>4, <2>1, <2>2 DEF Activating
<1>5. CASE \/ channel_crash
           \/ \E p \in Process \ {Channel} : crash(p) /\ UNCHANGED <<channel, req>>
  BY <1>5, CrashKeeps
<1> QED
  BY <1>2, <1>3, <1>4, <1>5, OthersKeep, RestoresConfirmed, CommandKeeps DEF Next

\* The invariant above holds in every behaviour of the channel, the starts and the
\* restores.
THEOREM RecoveryInvariant == Spec => []IInv
<1>1. Init => IInv
  BY InitIInv
<1>2. IInv /\ [Next]_vars => IInv'
  BY NextIInv
<1> QED
  BY <1>1, <1>2, PTL DEF Spec

\* What verify_archive says of an upload is right, for any archives, chunk sizes and
\* limits: one that lost a frame, has one twice, exchanged, renumbered, cut
\* short or altered, or one of another archive, is refused, and one as it was written
\* is accepted, wherever the chunks cut its records.
THEOREM VerdictsAreExact == Spec => []VerdictExact
<1>1. IInv => VerdictExact
  <2>1. ASSUME IInv, NEW q \in Request, At(q, "verifying")
        PROVE  req[q].upload.ok <=> req[q].upload.genuine
    <3>1. req[q].upload \in UploadsReceived
      BY <2>1 DEF IInv, ChannelInv, At
    <3> QED
      BY <3>1, FormatExact
  <2> QED
    BY <2>1 DEF VerdictExact
<1> QED
  BY <1>1, RecoveryInvariant, PTL

\* What a restore imports is the stream of the archive that was confirmed: the archive
\* that begin_restore was given is kept through all the steps of the restore, the
\* database it fills is the one at the path or was unlinked from it, and nothing is
\* confirmed while there is a database at the path.
THEOREM RestoresWhatWasConfirmed == Spec => []RestoredIsConfirmed
<1>1. IInv => RestoredIsConfirmed
  BY DEF IInv, ConfirmedInv
<1> QED
  BY <1>1, RecoveryInvariant, PTL

\* A ready vault is whole, whoever activated it: activate_initialization_kind compares
\* the guard, which a restore's bootstrap comes with and only its activation lifts.
THEOREM ReadyIsWhole == Spec => []ReadyMeansWhole
<1>1. ASSUME IInv
      PROVE  ReadyMeansWhole
  <2>1. path # None => DatabaseInv(path)
    BY <1>1 DEF IInv, FilesInv, FilesTyped
  <2> QED
    BY <2>1 DEF ReadyMeansWhole, DatabaseInv
<1> QED
  BY <1>1, RecoveryInvariant, PTL

\* A ready vault has its root key, for any number of processes that start up and
\* restore at the same paths, unless one other than its own was restoring when the
\* database was created.
THEOREM ReadyOpens == Spec => []ReadyVaultOpens
<1>1. ASSUME IInv, path # None, disk[path].state = "ready",
             disk[path].amid \subseteq {disk[path].begun}
      PROVE  RootOpens(disk[path])
  <2>1. FilesInv /\ path \in 1..MaxFiles
    BY <1>1 DEF IInv, FilesInv, FilesTyped
  <2>2. DatabaseInv(path) /\ disk[path] \in Database
    BY <2>1 DEF FilesInv, FilesTyped
  <2>3. disk[path].installation # 0 /\ disk[path].begun # None
    BY <1>1, <2>2 DEF DatabaseInv
  <2>4. disk[path].begun \in Process /\ disk[path].amid \subseteq Restorer
    BY <2>2, <2>3 DEF Database
  <2>5. CASE disk[path].begun \in Restorer
    <3>1. RestorerOpens(disk[path].begun)
      BY <2>1, <2>5 DEF FilesInv
    <3> QED
      BY <1>1, <3>1 DEF RestorerOpens
  <2>6. CASE disk[path].begun \in Starter
    <3>1. disk[path].amid = {}
      BY <1>1, <2>4, <2>6, ProcessApart
    <3> QED
      BY <1>1, <2>1, <2>3, <3>1 DEF FilesInv, PathOpens
  <2> QED
    BY <2>4, <2>5, <2>6 DEF Process
<1>2. IInv => ReadyVaultOpens
  BY <1>1 DEF ReadyVaultOpens, RootOpens, RootIs
<1> QED
  BY <1>2, RecoveryInvariant, PTL

\* Only the cleanup of a restore takes a database from its path.
LEMMA PathKept ==
  ASSUME [Next]_vars, path # None, path' # path
  PROVE  \E r \in Restorer : remove_database(r)
<1>1. ~(run \/ expire \/ shut_down \/ close \/ remove_staged \/ channel_crash \/ UNCHANGED vars)
  BY DEF run, expire, shut_down, close, remove_staged, channel_crash, vars, files
<1>2. ASSUME NEW q \in Request
      PROVE  ~(Claiming(q) \/ Verifying(q) \/ disconnect(q))
  BY DEF Claiming, claim_channel, claimed, Verifying, verify_archive, extract_fails,
         receive_fails, receive_upload, refuse_archive, stage_archive, disconnect
<1>3. ASSUME NEW q \in Request
      PROVE  ~Activating(q)
  BY DEF Activating, activate_restore, consume, begin_restore, consume_refused,
         confirm_refused, activation_answer
<1>4. ASSUME NEW p, NEW pc
      PROVE  ~open_store(p, pc)
  BY DEF open_store
<1>5. ASSUME NEW p \in Starter
      PROVE  ~Others(p)
  BY <1>4
     DEF Others, Startup, start, load_root_key_file, create_root, create_root_key_file,
         write_root, write_root_key, start_refused, begin_initialization,
         activate_initialization, start_ends
<1>6. ASSUME NEW r \in Restorer, Restores(r)
      PROVE  remove_database(r)
  BY <1>4, <1>6
     DEF Restores, restore, decoded, Restore, stage_root, create_root_key_file,
         stage_root_written, write_root_key, stage_store, begin_restore_initialization,
         import_portable_snapshot, audit_restore, verify_restore_staging_reopen,
         reopen_creates, activate_restored_initialization, restore_fails, remove_root
<1>7. ~(\E f \in Files : restore_command(f)) /\ ~(\E p \in Process : crash(p))
  BY DEF restore_command, begin_restore, crash, files
<1> QED
  BY <1>1, <1>2, <1>3, <1>5, <1>6, <1>7 DEF Next

\* A ready vault is removed only by the cleanup of a restore that was under way when
\* its database was created: begin_restore looks at the destination before it arms
\* the cleanup, so that a restore finds at the path only what came after it began.
THEOREM ReadyVaultIsKept == Spec => ReadyVaultStays
<1>1. ASSUME IInv, [Next]_vars
      PROVE  path # None /\ disk[path].state = "ready" /\ path' # path =>
                \E r \in disk[path].amid : proc[r].pc = "removing database"
  <2> SUFFICES ASSUME path # None, path' # path
               PROVE  \E r \in disk[path].amid : proc[r].pc = "removing database"
    OBVIOUS
  <2>1. PICK r \in Restorer : remove_database(r)
    BY <1>1, PathKept
  <2>2. proc[r].pc = "removing database"
    BY <2>1 DEF remove_database
  <2>3. AmidInv(r)
    BY <1>1 DEF IInv, FilesInv
  <2>4. r \in disk[path].amid
    BY <2>2, <2>3 DEF AmidInv
  <2> QED
    BY <2>2, <2>4
<1>2. IInv /\ [Next]_vars =>
         [path # None /\ disk[path].state = "ready" /\ path' # path =>
            \E r \in disk[path].amid : proc[r].pc = "removing database"]_vars
  BY <1>1
<1> QED
  BY <1>2, RecoveryInvariant, PTL DEF Spec, ReadyVaultStays

=============================================================================
