---------------------- MODULE SampleFormatConverterProofs ----------------------
(***************************************************************************)
(* Proofs about SampleFormatConverter, for any block size, rates, channels *)
(* and requests, any int and any round of Speex.                           *)
(*                                                                         *)
(* The frames computed and not yet returned lie in three places: in the    *)
(* workspace of the resampler, in the output buffer and in the buffer of   *)
(* the caller.  StreamInv numbers them: each is the frame of the stream    *)
(* that its place says, and the resampler stands at the input frame, and   *)
(* the fraction of one, at which the next frame is computed.  The numbers  *)
(* are kept by the arithmetic of division, which comes first, and the      *)
(* samples by the agreement of the two ways to remix, which comes next.    *)
(***************************************************************************)
EXTENDS SampleFormatConverter, WellFoundedInduction, SequenceTheorems, TLAPS

-----------------------------------------------------------------------------
(* The inductive invariant.                                                *)

\* The frame and the channel of the k-th sample of an interleaved buffer, and
\* the sample it must be if the buffer starts at frame n of the stream.
FrameOf(k)   == (k - 1) \div output_channels
ChannelOf(k) == ((k - 1) % output_channels) + 1
Expected(n, k) == RemixedFrame(PositionOf(n + FrameOf(k)))[ChannelOf(k)]

IsSeq(s) == Len(s) \in Nat /\ s = [i \in 1 .. Len(s) |-> s[i]]

\* The ratio of the rates is in terms of a common factor, and a converter that
\* could be constructed has room for a frame.
Ratio ==
  /\ input_frames \in Nat \ {0} /\ input_sr \in Nat \ {0} /\ output_sr \in Nat \ {0}
  /\ input_channels \in Nat \ {0} /\ output_channels \in Nat \ {0}
  /\ num_rate \in Nat \ {0} /\ den_rate \in Nat \ {0}
  /\ \E g \in 1 .. input_sr : input_sr = num_rate * g /\ output_sr = den_rate * g
  /\ output_frames \in Int
  /\ input_sr = output_sr => output_frames = input_frames

\* Where write is, and how far the two buffers are filled and emptied.
Counts ==
  /\ pc \in {"thrown", "idle", "write", "resample"}
  /\ pc # "thrown" => /\ output_frames > 0
                      /\ consumed_output_frames \in 0 .. output_frames
                      /\ IsSeq(output_buffer)
                      /\ Len(output_buffer) = output_frames * output_channels
  /\ pc = "thrown" => consumed_output_frames = output_frames
  /\ pc \in {"thrown", "idle"} => frames = 0 /\ buffer = <<>>
  /\ pc = "resample" => consumed_output_frames = output_frames /\ input_sr # output_sr
  /\ frames \in Nat /\ total \in Nat /\ called \in Nat
  /\ IsSeq(buffer) /\ Written \in Nat
  /\ Len(buffer) = Written * output_channels /\ Written <= frames

\* The resampler, which equal rates leave alone, has at most one block, the last
\* one pulled, or one spare buffer.
OneBlock ==
  /\ queue # <<>> =>
       /\ called > 0 /\ input_sr # output_sr
       /\ queue = << [i \in 1 .. input_frames |-> (called - 1) * input_frames + i - 1] >>
  /\ done_queue \in 0 .. 1 /\ (queue # <<>> => done_queue = 0)
  /\ offset \in 0 .. input_frames - 1 /\ (queue = <<>> => offset = 0)

\* The input frames that Speex has left behind.
Stand == IF queue = <<>> THEN called * input_frames
         ELSE (called - 1) * input_frames + offset

\* Speex stands where the next frame of the stream is computed; without Speex,
\* every frame pulled is in the stream.
InStep ==
  /\ last_sample \in Nat /\ samp_frac_num \in 0 .. den_rate - 1
  /\ input_sr # output_sr =>
       (Stand + last_sample) * den_rate + samp_frac_num = Computed * num_rate
  /\ input_sr = output_sr => called * input_frames = Computed

\* What is computed and not yet returned is the stream, from frame total on.
WorkspaceInStream ==
  /\ resampler_workspace \in Seq(Nat)
  /\ pc # "resample" => resampler_workspace = <<>>
  /\ pc = "resample" => Len(resampler_workspace) <= output_frames
  /\ \A i \in 1 .. Len(resampler_workspace) :
       resampler_workspace[i] = PositionOf(total + Written + i - 1)
OutputInStream ==
  pc # "thrown" =>
    \A k \in consumed_output_frames * output_channels + 1 .. Len(output_buffer) :
      output_buffer[k] = Expected((total + Written) - consumed_output_frames, k)
BufferInStream ==
  \A k \in 1 .. Len(buffer) : buffer[k] = Expected(total, k)

StreamInv == /\ Ratio /\ Counts /\ OneBlock /\ InStep
             /\ WorkspaceInStream /\ OutputInStream /\ BufferInStream

-----------------------------------------------------------------------------
(* Division.                                                               *)

\* A set of natural numbers that is not empty has a least element.
LEMMA Least ==
  ASSUME NEW T, T \subseteq Nat, T # {}
  PROVE  \E x \in T : \A y \in T : x <= y
<1> DEFINE R == {ss \in Nat \X Nat : ss[1] < ss[2]}
<1>1. IsWellFoundedOn(R, Nat)
  BY NatLessThanWellFounded DEF OpToRel
<1> HIDE DEF R
<1>2. PICK x \in T : \A y \in T : ~ (<<y, x>> \in R)
  BY <1>1, WFMin
<1>3. ASSUME NEW y \in T  PROVE  x <= y
  <2>1. x \in Nat /\ y \in Nat
    OBVIOUS
  <2>2. ~ (<<y, x>> \in R)
    BY <1>2
  <2>3. <<y, x>> \in Nat \X Nat
    BY <2>1
  <2>4. ~ (y < x)
    BY <2>2, <2>3 DEF R
  <2> QED
    BY <2>1, <2>4
<1> QED
  BY <1>3

\* And one with a bound has a greatest.
LEMMA Greatest ==
  ASSUME NEW b \in Nat, NEW T, T \subseteq 0 .. b, T # {}
  PROVE  \E x \in T : \A y \in T : y <= x
<1> DEFINE U == {b - x : x \in T}
<1>1. U \subseteq Nat /\ U # {}
  <2>1. \A x \in T : x \in 0 .. b /\ b - x \in Nat
    OBVIOUS
  <2> QED
    BY <2>1
<1>2. PICK u \in U : \A y \in U : u <= y
  BY <1>1, Least
<1>3. PICK x \in T : u = b - x
  OBVIOUS
<1>4. ASSUME NEW y \in T  PROVE  y <= x
  <2>1. u <= b - y
    BY <1>2
  <2> QED
    BY <1>3, <2>1
<1> QED
  BY <1>4

\* Quotient and remainder.
LEMMA DivMod ==
  ASSUME NEW n \in Nat \ {0}, NEW x \in Int
  PROVE  /\ x \div n \in Int /\ x % n \in 0 .. n - 1
         /\ x = n * (x \div n) + (x % n)
<1>1. x % n \in 0 .. n - 1 /\ x \div n \in Int
  OBVIOUS
<1>2. x = n * (x \div n) + (x % n)
  OBVIOUS
<1> QED
  BY <1>1, <1>2

\* They are the only ones.
LEMMA DivModUnique ==
  ASSUME NEW n \in Nat \ {0}, NEW f \in Int, NEW j \in 0 .. n - 1
  PROVE  (f * n + j) \div n = f /\ (f * n + j) % n = j
OBVIOUS

\* A whole number of frames more.
LEMMA DivModShift ==
  ASSUME NEW n \in Nat \ {0}, NEW x \in Int, NEW d \in Int
  PROVE  (x + d * n) \div n = (x \div n) + d /\ (x + d * n) % n = x % n
<1>1. PICK q \in Int, r \in 0 .. n - 1 : q = x \div n /\ r = x % n /\ x = n * q + r
  BY DivMod
<1>2. x + d * n = (q + d) * n + r
  BY <1>1
<1>3. ((q + d) * n + r) \div n = q + d /\ ((q + d) * n + r) % n = r
  BY DivModUnique
<1> QED
  BY <1>1, <1>2, <1>3

\* The quotient of a natural number.
LEMMA DivNat ==
  ASSUME NEW n \in Nat \ {0}, NEW x \in Nat
  PROVE  x \div n \in Nat
<1>1. PICK q \in Int, r \in 0 .. n - 1 : q = x \div n /\ x = n * q + r
  BY DivMod
<1>2. CASE q <= -1
  <2>1. n * q <= n * (-1)
    BY <1>2
  <2> QED
    BY <1>1, <2>1
<1> QED
  BY <1>1, <1>2

\* The quotient of a number below a product.
LEMMA DivBelow ==
  ASSUME NEW n \in Nat \ {0}, NEW m \in Nat, NEW x \in Nat, x < m * n
  PROVE  x \div n < m
<1>1. PICK q \in Int, r \in 0 .. n - 1 : q = x \div n /\ x = n * q + r
  BY DivMod
<1>2. CASE q >= m
  <2>1. n * q >= n * m
    BY <1>2
  <2> QED
    BY <1>1, <2>1
<1> QED
  BY <1>1, <1>2

\* The frame and the channel of a sample.
LEMMA Interleaved ==
  ASSUME NEW n \in Nat \ {0}, NEW f \in Nat, NEW L \in Nat, NEW k \in 1 .. L * n
  PROVE  /\ (k - 1) \div n \in 0 .. L - 1 /\ (k - 1) % n \in 0 .. n - 1
         /\ k = ((k - 1) \div n) * n + ((k - 1) % n) + 1
<1>1. k - 1 \in Nat /\ k - 1 < L * n
  OBVIOUS
<1>2. (k - 1) \div n \in Nat /\ (k - 1) \div n < L
  BY <1>1, DivNat, DivBelow
<1>3. (k - 1) % n \in 0 .. n - 1 /\ k - 1 = n * ((k - 1) \div n) + ((k - 1) % n)
  BY <1>1, DivMod
<1> QED
  BY <1>2, <1>3

\* Two products of a common factor: multiplying by a fraction and by the same
\* fraction in lower terms.
LEMMA Scaled ==
  ASSUME NEW a \in Nat \ {0}, NEW b \in Nat \ {0}, NEW g \in Nat \ {0}, NEW n \in Int
  PROVE  (n * (a * g)) \div (b * g) = (n * a) \div b
<1>1. PICK q \in Int, r \in 0 .. b - 1 : q = (n * a) \div b /\ n * a = b * q + r
  <2>1. n * a \in Int
    OBVIOUS
  <2> QED
    BY <2>1, DivMod
<1>2. n * (a * g) = q * (b * g) + r * g
  <2>1. n * (a * g) = (n * a) * g
    OBVIOUS
  <2>2. (b * q + r) * g = q * (b * g) + r * g
    OBVIOUS
  <2> QED
    BY <1>1, <2>1, <2>2
<1>3. b * g \in Nat \ {0}
  OBVIOUS
<1>4. r * g \in 0 .. b * g - 1
  <2>1. r * g >= 0
    OBVIOUS
  <2>2. r * g <= (b - 1) * g
    OBVIOUS
  <2>3. (b - 1) * g = b * g - g
    OBVIOUS
  <2> QED
    BY <2>1, <2>2, <2>3
<1>5. (q * (b * g) + r * g) \div (b * g) = q
  BY <1>3, <1>4, DivModUnique
<1> QED
  BY <1>1, <1>2, <1>5

\* The ratio of the rates in lowest terms.
LEMMA CommonFactorDivides ==
  ASSUME NEW a \in Nat \ {0}, NEW b \in Nat \ {0}
  PROVE  /\ CommonFactor(a, b) \in 1 .. a
         /\ a % CommonFactor(a, b) = 0 /\ b % CommonFactor(a, b) = 0
<1> DEFINE T == {f \in 1 .. a : a % f = 0 /\ b % f = 0}
<1>1. T \subseteq 0 .. a
  OBVIOUS
<1>2. 1 \in T
  <2>1. a % 1 = 0 /\ b % 1 = 0
    OBVIOUS
  <2> QED
    BY <2>1
<1>3. PICK f \in T : \A g \in T : g <= f
  <2> HIDE DEF T
  <2> QED
    BY <1>1, <1>2, Greatest
<1>4. ASSUME NEW g \in f + 1 .. a  PROVE  ~(a % g = 0 /\ b % g = 0)
  <2>1. f \in 1 .. a /\ g \in 1 .. a /\ ~ (g <= f)
    OBVIOUS
  <2>2. g \notin T
    <3> HIDE DEF T
    <3> QED
      BY <1>3, <2>1
  <2> QED
    BY <2>1, <2>2
<1>5. \E h \in 1 .. a : /\ a % h = 0 /\ b % h = 0
                        /\ \A g \in h + 1 .. a : ~(a % g = 0 /\ b % g = 0)
  BY <1>4
<1> QED
  BY <1>5 DEF CommonFactor

-----------------------------------------------------------------------------
(* Sequences.                                                              *)

\* A function on 1 .. n is a sequence of length n, and IsSeq says it of a value
\* whose elements have no set of their own.
LEMMA FunctionIsSeq ==
  ASSUME NEW n \in Nat, NEW S, NEW s \in [1 .. n -> S]
  PROVE  s \in Seq(S) /\ Len(s) = n /\ IsSeq(s)
<1>1. s \in Seq(S)
  BY SeqDef
<1>2. Len(s) \in Nat /\ DOMAIN s = 1 .. Len(s)
  BY <1>1, LenProperties
<1>3. Len(s) = n
  <2>1. 1 .. n = 1 .. Len(s)
    BY <1>2
  <2>2. ASSUME n < Len(s)  PROVE  FALSE
    <3>1. Len(s) \in 1 .. Len(s) /\ Len(s) \notin 1 .. n
      BY <1>2, <2>2
    <3> QED
      BY <2>1, <3>1
  <2>3. ASSUME Len(s) < n  PROVE  FALSE
    <3>1. n \in 1 .. n /\ n \notin 1 .. Len(s)
      BY <1>2, <2>3
    <3> QED
      BY <2>1, <3>1
  <2> QED
    BY <1>2, <2>2, <2>3
<1> QED
  BY <1>1, <1>2, <1>3 DEF IsSeq

\* Such a value is a sequence over any set that has its elements.
LEMMA SeqOfElements ==
  ASSUME NEW s, IsSeq(s), NEW S, \A i \in 1 .. Len(s) : s[i] \in S
  PROVE  s \in Seq(S)
<1>1. Len(s) \in Nat /\ s \in [1 .. Len(s) -> S]
  BY DEF IsSeq
<1> QED
  BY <1>1, FunctionIsSeq

\* And conversely.
LEMMA SeqIsSeq ==
  ASSUME NEW S, NEW s \in Seq(S)
  PROVE  IsSeq(s)
<1>1. Len(s) \in Nat /\ s \in [1 .. Len(s) -> S]
  BY LenProperties
<1> QED
  BY <1>1 DEF IsSeq

\* What Copy does to the buffer, whatever the samples are.
LEMMA Appended ==
  ASSUME NEW s, NEW t, IsSeq(s), IsSeq(t),
         NEW a \in 1 .. Len(t) + 1, NEW b \in a - 1 .. Len(t)
  PROVE  /\ IsSeq(s \o SubSeq(t, a, b))
         /\ Len(s \o SubSeq(t, a, b)) = Len(s) + b - a + 1
         /\ \A k \in 1 .. Len(s) : (s \o SubSeq(t, a, b))[k] = s[k]
         /\ \A k \in Len(s) + 1 .. Len(s) + b - a + 1 :
              (s \o SubSeq(t, a, b))[k] = t[a + (k - Len(s)) - 1]
<1> DEFINE S == {s[i] : i \in 1 .. Len(s)} \cup {t[i] : i \in 1 .. Len(t)}
<1> DEFINE u == SubSeq(t, a, b)
<1>1. s \in Seq(S) /\ t \in Seq(S)
  <2>1. \A i \in 1 .. Len(s) : s[i] \in S
    OBVIOUS
  <2>2. \A i \in 1 .. Len(t) : t[i] \in S
    OBVIOUS
  <2> HIDE DEF S
  <2> QED
    BY <2>1, <2>2, SeqOfElements
<1>2. Len(s) \in Nat /\ Len(t) \in Nat
  BY DEF IsSeq
<1> HIDE DEF S
<1>3. u \in Seq(S) /\ Len(u) = b - a + 1 /\ \A i \in 1 .. b - a + 1 : u[i] = t[a + i - 1]
  <2>1. Len(u) = IF a <= b THEN b - a + 1 ELSE 0
    BY <1>1, <1>2, SubSeqProperties
  <2>2. u \in Seq(S) /\ \A i \in 1 .. b - a + 1 : u[i] = t[a + i - 1]
    BY <1>1, <1>2, SubSeqProperties
  <2> QED
    BY <1>2, <2>1, <2>2
<1> HIDE DEF u
<1>4. /\ s \o u \in Seq(S) /\ Len(s \o u) = Len(s) + Len(u)
      /\ \A i \in 1 .. Len(s) + Len(u) :
           (s \o u)[i] = IF i <= Len(s) THEN s[i] ELSE u[i - Len(s)]
  BY <1>1, <1>3, ConcatProperties
<1>5. IsSeq(s \o u)
  BY <1>4, SeqIsSeq
<1>6. ASSUME NEW k \in 1 .. Len(s)  PROVE  (s \o u)[k] = s[k]
  BY <1>2, <1>3, <1>4
<1>7. ASSUME NEW k \in Len(s) + 1 .. Len(s) + b - a + 1
      PROVE  (s \o u)[k] = t[a + (k - Len(s)) - 1]
  <2>1. k \in 1 .. Len(s) + Len(u) /\ ~ (k <= Len(s)) /\ k - Len(s) \in 1 .. b - a + 1
    BY <1>2, <1>3
  <2> QED
    BY <1>3, <1>4, <2>1
<1> QED
  BY <1>2, <1>3, <1>4, <1>5, <1>6, <1>7 DEF u

-----------------------------------------------------------------------------
(* Remixing: the interleaved functions and those with a buffer per channel *)
(* compute the same samples.                                               *)

\* Channel j, from 1, of the frame at position p.
Mixed(p, j) ==
  0 + IF HasMatrix(input_channels, output_channels)
        THEN Product(Matrix(input_channels, output_channels)[j],
                     [c \in 1 .. input_channels |-> Sample(p, c - 1)])
      ELSE IF input_channels = 1 THEN One * Sample(p, 0)
      ELSE IF j <= Lesser(input_channels, output_channels) THEN One * Sample(p, j - 1)
      ELSE 0

\* It is what remixing in one buffer per channel makes of it.
LEMMA RemixedFrameIsMixed ==
  ASSUME input_channels \in Nat \ {0}, output_channels \in Nat \ {0},
         NEW p, NEW j \in 1 .. output_channels
  PROVE  RemixedFrame(p)[j] = Mixed(p, j)
<1> DEFINE inputs == [c \in 1 .. input_channels |-> <<Sample(p, c - 1)>>]
           rest   == IF HasMatrix(input_channels, output_channels)
                       THEN applyMixingMatrixUninterleaved(inputs, input_channels, output_channels, 1, j)
                     ELSE IF input_channels = 1 THEN upmixMonoUninterleaved(inputs[1], 1)
                     ELSE mixUnrecognizedUninterleaved(inputs, input_channels, output_channels, 1, j)
<1>1. RemixedFrame(p)[j] = 0 + rest
  BY DEF RemixedFrame, remixAudioUninterleaved
<1>2. \A c \in 1 .. input_channels : inputs[c][1] = Sample(p, c - 1)
  OBVIOUS
<1>3. [c \in 1 .. input_channels |-> inputs[c][1]]
        = [c \in 1 .. input_channels |-> Sample(p, c - 1)]
  BY <1>2
<1>4. inputs[1][1] = Sample(p, 0)
  <2>1. 1 \in 1 .. input_channels /\ 1 - 1 = 0
    OBVIOUS
  <2> QED
    BY <1>2, <2>1
<1>5. ASSUME input_channels # 1, j <= Lesser(input_channels, output_channels)
      PROVE  inputs[j][1] = Sample(p, j - 1)
  BY <1>2, <1>5 DEF Lesser
<1> HIDE DEF inputs
<1>6. rest = IF HasMatrix(input_channels, output_channels)
               THEN Product(Matrix(input_channels, output_channels)[j],
                            [c \in 1 .. input_channels |-> Sample(p, c - 1)])
             ELSE IF input_channels = 1 THEN One * Sample(p, 0)
             ELSE IF j <= Lesser(input_channels, output_channels) THEN One * Sample(p, j - 1)
             ELSE 0
  BY <1>3, <1>4, <1>5
     DEF applyMixingMatrixUninterleaved, upmixMonoUninterleaved, mixUnrecognizedUninterleaved
<1> HIDE DEF rest
<1> QED
  BY <1>1, <1>6 DEF Mixed

\* Sample c, from 0, of frame i, from 0.
LEMMA SampleAt ==
  ASSUME input_channels \in Nat \ {0}, NEW positions, Len(positions) \in Nat,
         NEW i \in 0 .. Len(positions) - 1, NEW c \in 0 .. input_channels - 1
  PROVE  /\ i * input_channels + c + 1 \in 1 .. Len(positions) * input_channels
         /\ Samples(positions)[i * input_channels + c + 1] = Sample(positions[i + 1], c)
<1> DEFINE k == i * input_channels + c + 1
<1>1. k \in 1 .. Len(positions) * input_channels
  <2>1. i * input_channels <= (Len(positions) - 1) * input_channels /\ i * input_channels >= 0
    OBVIOUS
  <2>2. (Len(positions) - 1) * input_channels = Len(positions) * input_channels - input_channels
    OBVIOUS
  <2>3. i * input_channels \in Int /\ Len(positions) * input_channels \in Int
    OBVIOUS
  <2> QED
    BY <2>1, <2>2, <2>3
<1>2. (k - 1) \div input_channels = i /\ (k - 1) % input_channels = c
  <2>1. k - 1 = i * input_channels + c
    OBVIOUS
  <2> QED
    BY <2>1, DivModUnique
<1> HIDE DEF k
<1>3. Samples(positions)[k] = Sample(positions[((k - 1) \div input_channels) + 1],
                                     (k - 1) % input_channels)
  BY <1>1 DEF Samples
<1> QED
  BY <1>1, <1>2, <1>3 DEF k

\* All samples of frame i, as applyMixingMatrixInterleaved takes them.
LEMMA FrameAt ==
  ASSUME input_channels \in Nat \ {0}, NEW positions, Len(positions) \in Nat,
         NEW i \in 0 .. Len(positions) - 1
  PROVE  Frame(Samples(positions), input_channels, i)
           = [c \in 1 .. input_channels |-> Sample(positions[i + 1], c - 1)]
<1> DEFINE m == input_channels
           input == Samples(positions)
           S == {input[k] : k \in i * m + 1 .. i * m + m}
           s == SubSeq(input, i * m + 1, i * m + m)
           t == [c \in 1 .. m |-> Sample(positions[i + 1], c - 1)]
<1>1. i * m + 1 \in Int /\ i * m + m \in Int /\ i * m + 1 <= i * m + m
      /\ (i * m + m) - (i * m + 1) + 1 = m
  OBVIOUS
<1>2. \A k \in i * m + 1 .. i * m + m : input[k] \in S
  OBVIOUS
<1>3. \A c \in 1 .. m : input[(i * m + 1) + c - 1] = Sample(positions[i + 1], c - 1)
  <2>1. ASSUME NEW c \in 1 .. m
        PROVE  input[(i * m + 1) + c - 1] = Sample(positions[i + 1], c - 1)
    <3>1. c - 1 \in 0 .. m - 1 /\ (i * m + 1) + c - 1 = i * m + (c - 1) + 1
      OBVIOUS
    <3> QED
      BY <3>1, SampleAt
  <2> QED
    BY <2>1
<1> HIDE DEF S, m, input
<1>4. s \in Seq(S) /\ Len(s) = m /\ \A c \in 1 .. m : s[c] = input[(i * m + 1) + c - 1]
  <2>1. PICK a \in Int, b \in Int : a = i * m + 1 /\ b = i * m + m /\ a <= b /\ b - a + 1 = m
    BY <1>1
  <2>2. \A k \in a .. b : input[k] \in S
    BY <1>2, <2>1
  <2>3. /\ SubSeq(input, a, b) \in Seq(S) /\ Len(SubSeq(input, a, b)) = b - a + 1
        /\ \A c \in 1 .. b - a + 1 : SubSeq(input, a, b)[c] = input[a + c - 1]
    <3> HIDE DEF s, t
    <3>1. SubSeq(input, a, b) \in Seq(S)
      BY <2>2, SubSeqProperties
    <3>2. Len(SubSeq(input, a, b)) = IF a <= b THEN b - a + 1 ELSE 0
      BY <2>2, SubSeqProperties
    <3>3. \A c \in 1 .. b - a + 1 : SubSeq(input, a, b)[c] = input[a + c - 1]
      BY <2>2, SubSeqProperties
    <3> QED
      BY <2>1, <3>1, <3>2, <3>3
  <2>4. s = SubSeq(input, a, b)
    BY <2>1
  <2>5. \A c \in 1 .. m : SubSeq(input, a, b)[c] = input[(i * m + 1) + c - 1]
    BY <2>1, <2>3
  <2> HIDE DEF s
  <2>6. s \in Seq(S) /\ Len(s) = m
    BY <2>1, <2>3, <2>4
  <2> QED
    BY <2>4, <2>5, <2>6
<1>5. s = [c \in 1 .. m |-> s[c]]
  BY <1>4, LenProperties
<1>6. s = t
  BY <1>3, <1>4, <1>5
<1> QED
  BY <1>6 DEF Frame, m, input

\* Remixing interleaved frames gives, sample by sample, what remixing in a
\* buffer per channel gives, for any two numbers of channels: with a matrix,
\* from mono, with unrecognized counts and, copied, with equal ones.
THEOREM RemixAgrees ==
  ASSUME input_channels \in Nat \ {0}, output_channels \in Nat \ {0},
         NEW positions, Len(positions) \in Nat, \A i \in 1 .. Len(positions) : positions[i] \in Nat
  PROVE  /\ IsSeq(Remixed(positions))
         /\ Len(Remixed(positions)) = Len(positions) * output_channels
         /\ \A k \in 1 .. Len(positions) * output_channels :
              Remixed(positions)[k] = RemixedFrame(positions[FrameOf(k) + 1])[ChannelOf(k)]
<1> DEFINE L == Len(positions)
           input == Samples(positions)
           value(k) ==
             IF input_channels = output_channels THEN One * input[k]
             ELSE 0 + IF HasMatrix(input_channels, output_channels)
                        THEN applyMixingMatrixInterleaved(input, input_channels, output_channels,
                                                          FrameOf(k), (k - 1) % output_channels)
                      ELSE IF input_channels = 1 THEN upmixMonoInterleaved(input, FrameOf(k))
                      ELSE mixUnrecognizedInterleaved(input, input_channels, output_channels,
                                                      FrameOf(k), (k - 1) % output_channels)
           S == {value(k) : k \in 1 .. L * output_channels}
           s == [k \in 1 .. L * output_channels |-> value(k)]
<1>1. Remixed(positions) = s
  <2>1. CASE input_channels = output_channels
    <3>1. DOMAIN input = 1 .. L * output_channels
      BY <2>1 DEF Samples
    <3> HIDE DEF input
    <3>2. Remixed(positions) = [k \in 1 .. L * output_channels |-> One * input[k]]
      BY <2>1, <3>1 DEF Remixed, input
    <3> QED
      BY <2>1, <3>2
  <2>2. CASE input_channels # output_channels
    <3> HIDE DEF input
    <3> QED
      BY <2>2 DEF Remixed, remixAudioInterleaved, FrameOf, input
  <2> QED
    BY <2>1, <2>2
<1>2. L * output_channels \in Nat
  OBVIOUS
<1>3. s \in [1 .. L * output_channels -> S]
  <2> HIDE DEF value, L
  <2> QED
    OBVIOUS
<1>4. IsSeq(s) /\ Len(s) = L * output_channels
  <2> HIDE DEF s, S, L
  <2> QED
    BY <1>2, <1>3, FunctionIsSeq
<1>5. ASSUME NEW k \in 1 .. L * output_channels
      PROVE  s[k] = RemixedFrame(positions[FrameOf(k) + 1])[ChannelOf(k)]
  <2> DEFINE i == FrameOf(k)
             j == (k - 1) % output_channels
             p == positions[i + 1]
  <2>1. i \in 0 .. L - 1 /\ j \in 0 .. output_channels - 1
        /\ k = i * output_channels + j + 1 /\ ChannelOf(k) = j + 1
    BY Interleaved DEF FrameOf, ChannelOf
  <2>2. p \in Nat
    BY <2>1
  <2>3. RemixedFrame(p)[j + 1] = Mixed(p, j + 1)
    <3>1. j + 1 \in 1 .. output_channels
      BY <2>1
    <3> HIDE DEF p, j
    <3> QED
      BY <3>1, RemixedFrameIsMixed
  <2>4. \A c \in 0 .. input_channels - 1 : input[i * input_channels + c + 1] = Sample(p, c)
    BY <2>1, SampleAt
  <2>5. value(k) = Mixed(p, j + 1)
    <3>1. CASE input_channels = output_channels
      <4>1. value(k) = One * Sample(p, j)
        <5>1. input[i * input_channels + j + 1] = Sample(p, j)
          BY <2>1, <2>4, <3>1
        <5> QED
          BY <2>1, <3>1, <5>1
      <4>2. Mixed(p, j + 1) = 0 + One * Sample(p, j)
        <5>1. ~ HasMatrix(input_channels, output_channels)
          BY <3>1 DEF HasMatrix
        <5>2. j + 1 <= Lesser(input_channels, output_channels) /\ (j + 1) - 1 = j
          BY <2>1, <3>1 DEF Lesser
        <5>3. input_channels = 1 => j = 0
          BY <2>1, <3>1
        <5> HIDE DEF i, j, p, input, L
        <5> QED
          BY <5>1, <5>2, <5>3 DEF Mixed
      <4>3. One * Sample(p, j) \in Int
        <5>1. PICK q \in Nat, d \in 0 .. output_channels - 1 : q = p /\ d = j
          BY <2>1, <2>2
        <5>2. 100000 * (10 * q + d) \in Int
          OBVIOUS
        <5> HIDE DEF p, j
        <5> QED
          BY <5>1, <5>2 DEF One, Sample
      <4> QED
        BY <4>1, <4>2, <4>3
    <3>2. CASE input_channels # output_channels /\ HasMatrix(input_channels, output_channels)
      <4>1. Frame(input, input_channels, i) = [c \in 1 .. input_channels |-> Sample(p, c - 1)]
        BY <2>1, FrameAt
      <4> HIDE DEF i, j, p, input, L
      <4> QED
        BY <3>2, <4>1 DEF applyMixingMatrixInterleaved, Mixed, i, j
    <3>3. CASE input_channels # output_channels /\ ~ HasMatrix(input_channels, output_channels)
      <4>1. CASE input_channels = 1
        <5>1. input[i + 1] = Sample(p, 0)
          <6>1. 0 \in 0 .. input_channels - 1 /\ i * input_channels + 0 + 1 = i + 1
            BY <2>1, <4>1
          <6> QED
            BY <2>4, <6>1
        <5> HIDE DEF i, j, p, input, L
        <5> QED
          BY <3>3, <4>1, <5>1 DEF upmixMonoInterleaved, Mixed, i
      <4>2. CASE input_channels # 1
        <5>1. j < Lesser(input_channels, output_channels)
                => input[i * input_channels + j + 1] = Sample(p, j)
          <6>1. PICK d \in Nat : d = j
            BY <2>1
          <6>2. d < Lesser(input_channels, output_channels) => d \in 0 .. input_channels - 1
            BY DEF Lesser
          <6> HIDE DEF i, j, p, input
          <6> QED
            BY <2>4, <6>1, <6>2
        <5>2. (j < Lesser(input_channels, output_channels)
                 <=> j + 1 <= Lesser(input_channels, output_channels)) /\ (j + 1) - 1 = j
          BY <2>1 DEF Lesser
        <5> HIDE DEF i, j, p, input, L
        <5> QED
          BY <3>3, <4>2, <5>1, <5>2 DEF mixUnrecognizedInterleaved, Mixed, i, j
      <4> QED
        BY <4>1, <4>2
    <3> QED
      BY <3>1, <3>2, <3>3
  <2> HIDE DEF value
  <2> QED
    BY <2>1, <2>3, <2>5
<1> HIDE DEF s
<1> QED
  BY <1>1, <1>4, <1>5

-----------------------------------------------------------------------------
(* Where an output frame is in the input.                                  *)

\* The ratio in lowest terms gives the same position as the rates.
LEMMA PositionInLowestTerms ==
  ASSUME Ratio, NEW n \in Nat
  PROVE  PositionOf(n) = (n * num_rate) \div den_rate /\ PositionOf(n) \in Nat
<1>1. PICK g \in 1 .. input_sr : input_sr = num_rate * g /\ output_sr = den_rate * g
  BY DEF Ratio
<1>2. num_rate \in Nat \ {0} /\ den_rate \in Nat \ {0} /\ g \in Nat \ {0}
  BY DEF Ratio
<1>3. (n * (num_rate * g)) \div (den_rate * g) = (n * num_rate) \div den_rate
  BY <1>2, Scaled
<1>4. n * num_rate \in Nat
  BY <1>2
<1>5. (n * num_rate) \div den_rate \in Nat
  BY <1>2, <1>4, DivNat
<1> QED
  BY <1>1, <1>3, <1>5 DEF PositionOf

\* With equal rates it is where it was.
LEMMA PositionAtEqualRates ==
  ASSUME Ratio, input_sr = output_sr, NEW n \in Nat
  PROVE  PositionOf(n) = n
<1>1. output_sr \in Nat \ {0} /\ 0 \in 0 .. output_sr - 1
  BY DEF Ratio
<1>2. (n * output_sr + 0) \div output_sr = n
  BY <1>1, DivModUnique
<1>3. n * output_sr + 0 = n * output_sr
  BY <1>1
<1> QED
  BY <1>2, <1>3 DEF PositionOf

\* The walk of Speex, as quotient and remainder.
LEMMA AtIsInt ==
  ASSUME last_sample \in Nat, samp_frac_num \in Nat, num_rate \in Nat \ {0},
         den_rate \in Nat \ {0}, NEW k \in Nat
  PROVE  /\ Walk(k) \in Nat /\ At(k) \in Nat /\ Walk(k) % den_rate \in 0 .. den_rate - 1
         /\ Walk(k) = den_rate * At(k) + (Walk(k) % den_rate)
<1>1. Walk(k) \in Nat
  <2>1. last_sample * den_rate \in Nat /\ k * num_rate \in Nat
    OBVIOUS
  <2> QED
    BY <2>1 DEF Walk
<1>2. PICK w \in Nat : w = Walk(k)
  BY <1>1
<1>3. w \div den_rate \in Nat
  BY DivNat
<1>4. w % den_rate \in 0 .. den_rate - 1 /\ w = den_rate * (w \div den_rate) + (w % den_rate)
  BY DivMod
<1> QED
  BY <1>2, <1>3, <1>4 DEF At

\* A round of Speex stops: there is a first frame that is not computed.
LEMMA OutSamplesExists ==
  ASSUME last_sample \in Nat, samp_frac_num \in Nat, num_rate \in Nat \ {0},
         den_rate \in Nat \ {0}, NEW ilen \in Int, NEW olen \in Nat
  PROVE  OutSamples(ilen, olen) \in 0 .. olen
<1> DEFINE T == {k \in 0 .. olen : k = olen \/ At(k) >= ilen}
<1>1. PICK k \in T : \A j \in T : k <= j
  <2>1. T \subseteq Nat /\ olen \in T
    OBVIOUS
  <2> HIDE DEF T
  <2> QED
    BY <2>1, Least
<1>2. ASSUME NEW j \in 0 .. k - 1  PROVE  At(j) < ilen
  <2>1. j \in 0 .. olen /\ j \in Nat /\ j < k /\ k \in 0 .. olen
    OBVIOUS
  <2>2. j \notin T
    <3> HIDE DEF T
    <3> QED
      BY <1>1, <2>1
  <2>3. ~ (At(j) >= ilen)
    BY <2>1, <2>2
  <2>4. At(j) \in Nat
    BY <2>1, AtIsInt
  <2> QED
    BY <2>3, <2>4
<1>3. \E h \in 0 .. olen : /\ h = olen \/ At(h) >= ilen
                           /\ \A j \in 0 .. h - 1 : At(j) < ilen
  BY <1>2
<1> QED
  BY <1>3 DEF OutSamples

-----------------------------------------------------------------------------
(* Initial states.                                                         *)

\* The constructor reduces the ratio by a common factor.
LEMMA RatioOfRates ==
  ASSUME NEW a \in Nat \ {0}, NEW b \in Nat \ {0}
  PROVE  /\ a \div CommonFactor(a, b) \in Nat \ {0} /\ b \div CommonFactor(a, b) \in Nat \ {0}
         /\ \E g \in 1 .. a : /\ a = (a \div CommonFactor(a, b)) * g
                              /\ b = (b \div CommonFactor(a, b)) * g
<1>1. PICK g \in 1 .. a : g = CommonFactor(a, b) /\ a % g = 0 /\ b % g = 0
  BY CommonFactorDivides
<1>2. g \in Nat \ {0}
  OBVIOUS
<1>3. PICK x \in Int, r \in 0 .. g - 1 : x = a \div g /\ r = a % g /\ a = g * x + r
  BY <1>2, DivMod
<1>4. PICK y \in Int, s \in 0 .. g - 1 : y = b \div g /\ s = b % g /\ b = g * y + s
  BY <1>2, DivMod
<1>5. a = x * g /\ b = y * g /\ x \in Nat /\ y \in Nat
  <2>1. r = 0 /\ s = 0
    BY <1>1, <1>3, <1>4
  <2>2. a \div g \in Nat
    BY <1>2, DivNat
  <2>3. b \div g \in Nat
    BY <1>2, DivNat
  <2> QED
    BY <1>3, <1>4, <2>1, <2>2, <2>3
<1>6. x # 0 /\ y # 0
  <2>1. 0 * g = 0
    BY <1>2
  <2> QED
    BY <1>5, <2>1
<1> QED
  BY <1>1, <1>3, <1>4, <1>5, <1>6

\* The length computed as an int is a number, and not zero.
LEMMA ResamplerLengthIsInt ==
  ASSUME NEW n \in Nat \ {0}, NEW inSr \in Nat \ {0}, NEW outSr \in Nat \ {0}
  PROVE  ResamplerLength(n, inSr, outSr) \in Int \ {0}
<1>1. PICK p \in Int : p = n * outSr
  OBVIOUS
<1>2. 2 * MaxInt + 2 \in Nat \ {0} /\ MaxInt \in Int
  BY ConverterAssumption
<1>3. PICK x \in Int : x = AsInt(p)
  <2>1. PICK w \in Nat \ {0}, y \in Int : w = 2 * MaxInt + 2 /\ y = p + MaxInt + 1
    BY <1>2
  <2>2. y % w \in 0 .. w - 1
    BY DivMod
  <2>3. PICK r \in Int : r = (p + MaxInt + 1) % (2 * MaxInt + 2)
    BY <2>1, <2>2
  <2>4. AsInt(p) = r - MaxInt - 1
    BY <2>3 DEF AsInt
  <2> QED
    BY <1>2, <2>4
<1>4. x \div inSr \in Int /\ (-x) \div inSr \in Int
  BY DivMod
<1>5. Quotient(x, inSr) \in Int
  BY <1>4 DEF Quotient
<1> QED
  BY <1>1, <1>3, <1>5 DEF ResamplerLength

\* Nothing written.
LEMMA EmptyBuffer ==
  /\ Len(<<>>) = 0 /\ IsSeq(<<>>)
  /\ output_channels \in Nat \ {0} =>
       0 \div output_channels = 0 /\ 0 * output_channels = 0
<1>1. Len(<<>>) = 0 /\ <<>> \in Seq(Int)
  BY EmptySeq
<1>2. IsSeq(<<>>)
  BY <1>1, SeqIsSeq
<1>3. ASSUME output_channels \in Nat \ {0}
      PROVE  0 \div output_channels = 0 /\ 0 * output_channels = 0
  <2>1. 0 \in 0 .. output_channels - 1 /\ 0 \in Int /\ 0 * output_channels = 0
        /\ 0 * output_channels + 0 = 0
    BY <1>3
  <2>2. (0 * output_channels + 0) \div output_channels = 0
    BY <1>3, <2>1, DivModUnique
  <2> QED
    BY <2>1, <2>2
<1> QED
  BY <1>1, <1>2, <1>3

\* A new converter has computed nothing and stands at the first frame.
LEMMA InitStreamInv ==
  ASSUME Init
  PROVE  StreamInv
<1>1. /\ input_frames \in Nat \ {0} /\ input_sr \in Nat \ {0} /\ output_sr \in Nat \ {0}
      /\ input_channels \in Nat \ {0} /\ output_channels \in Nat \ {0}
  BY ConverterAssumption DEF Init
<1>2. ResamplerLength(input_frames, input_sr, output_sr) \in Int \ {0}
  BY <1>1, ResamplerLengthIsInt
<1>3. output_frames \in Int \ {0}
  BY <1>1, <1>2 DEF Init
<1>4. Ratio
  <2> DEFINE a == input_sr
             b == output_sr
  <2>0. /\ a \div CommonFactor(a, b) \in Nat \ {0} /\ b \div CommonFactor(a, b) \in Nat \ {0}
        /\ \E g \in 1 .. a : /\ a = (a \div CommonFactor(a, b)) * g
                             /\ b = (b \div CommonFactor(a, b)) * g
    <3>1. a \in Nat \ {0} /\ b \in Nat \ {0}
      BY <1>1
    <3> HIDE DEF a, b
    <3> QED
      BY <3>1, RatioOfRates
  <2>1. num_rate \in Nat \ {0} /\ den_rate \in Nat \ {0}
    BY <2>0, Zenon DEF Init
  <2>2. \E g \in 1 .. input_sr : input_sr = num_rate * g /\ output_sr = den_rate * g
    BY <2>0, Zenon DEF Init
  <2>3. input_sr = output_sr => output_frames = input_frames
    BY DEF Init
  <2> QED
    BY <1>1, <1>3, <2>1, <2>2, <2>3 DEF Ratio
<1>5. Written = 0
  BY <1>1, EmptyBuffer DEF Init, Written
<1>6. Counts
  <2>1. ASSUME pc # "thrown"
        PROVE  /\ output_frames > 0 /\ consumed_output_frames \in 0 .. output_frames
               /\ IsSeq(output_buffer) /\ Len(output_buffer) = output_frames * output_channels
    <3>1. output_frames > 0 /\ consumed_output_frames \in 0 .. output_frames
      BY <1>3, <2>1 DEF Init
    <3>2. output_frames * output_channels \in Nat
      BY <1>1, <1>3, <3>1
    <3>3. output_buffer \in [1 .. output_frames * output_channels -> {0}]
      BY DEF Init
    <3> QED
      BY <3>1, <3>2, <3>3, FunctionIsSeq
  <2>2. buffer = <<>> /\ frames = 0 /\ total = 0 /\ called = 0 /\ consumed_output_frames = output_frames
        /\ pc \in {"thrown", "idle"}
    BY DEF Init
  <2>3. IsSeq(buffer) /\ Len(buffer) = Written * output_channels
    BY <1>1, <1>5, <2>2, EmptyBuffer
  <2> QED
    BY <1>5, <2>1, <2>2, <2>3 DEF Counts
<1>7. OneBlock
  BY <1>1 DEF Init, ResamplerInit, OneBlock
<1>8. InStep
  <2>1. Computed = 0
    BY <1>3, <1>5, EmptyBuffer DEF Init, Computed
  <2>2. Stand = 0 /\ called * input_frames = 0
    BY <1>1 DEF Init, ResamplerInit, Stand
  <2>3. last_sample = 0 /\ samp_frac_num = 0
    BY DEF Init, ResamplerInit, SpeexInit
  <2>4. (0 + 0) * den_rate + 0 = 0 * num_rate /\ 0 \in 0 .. den_rate - 1
    BY <1>4 DEF Ratio
  <2> QED
    BY <2>1, <2>2, <2>3, <2>4 DEF InStep
<1>9. WorkspaceInStream
  <2>1. resampler_workspace = <<>> /\ pc # "resample"
    BY DEF Init
  <2>2. resampler_workspace \in Seq(Nat) /\ Len(resampler_workspace) = 0
    BY <2>1, EmptySeq
  <2> QED
    BY <2>1, <2>2 DEF WorkspaceInStream
<1>10. OutputInStream
  <2>1. ASSUME pc # "thrown",
               NEW k \in consumed_output_frames * output_channels + 1 .. Len(output_buffer)
        PROVE  FALSE
    <3>1. Len(output_buffer) = output_frames * output_channels
      BY <1>6, <2>1 DEF Counts
    <3>2. consumed_output_frames = output_frames /\ output_frames * output_channels \in Int
      BY <1>1, <1>3 DEF Init
    <3> QED
      BY <3>1, <3>2
  <2> QED
    BY <2>1 DEF OutputInStream
<1>11. BufferInStream
  <2>1. Len(buffer) = 0
    BY EmptyBuffer DEF Init
  <2> QED
    BY <2>1 DEF BufferInStream
<1> QED
  BY <1>4, <1>6, <1>7, <1>8, <1>9, <1>10, <1>11 DEF StreamInv

-----------------------------------------------------------------------------
(* The actions of write.                                                   *)

\* No step changes the parameters, in particular not the ratio.
LEMMA RatioStep ==
  ASSUME Ratio, UNCHANGED parameters
  PROVE  Ratio'
BY DEF Ratio, parameters

\* The sample expected at a place stays the same.
LEMMA ExpectedSame ==
  ASSUME NEW n, NEW k, UNCHANGED parameters
  PROVE  Expected(n, k)' = Expected(n, k)
BY DEF Expected, RemixedFrame, PositionOf, FrameOf, ChannelOf, parameters

\* So does the position of a frame.
LEMMA PositionSame ==
  ASSUME NEW n, UNCHANGED parameters
  PROVE  PositionOf(n)' = PositionOf(n)
BY DEF PositionOf, parameters

\* The numbers the proofs count with.
LEMMA LengthsAreNat ==
  ASSUME StreamInv
  PROVE  Len(resampler_workspace) \in Nat /\ Len(buffer) \in Nat
<1>1. Len(resampler_workspace) \in Nat
  BY LenProperties DEF StreamInv, WorkspaceInStream
<1>2. Len(buffer) \in Nat
  BY DEF StreamInv, Counts, IsSeq
<1> QED
  BY <1>1, <1>2

LEMMA CountsAreInts ==
  ASSUME StreamInv
  PROVE  /\ input_frames \in Nat \ {0} /\ input_channels \in Nat \ {0} /\ output_channels \in Nat \ {0}
         /\ num_rate \in Nat \ {0} /\ den_rate \in Nat \ {0}
         /\ output_frames \in Int /\ consumed_output_frames \in Int
         /\ frames \in Nat /\ total \in Nat /\ called \in Nat /\ Written \in Nat
         /\ last_sample \in Nat /\ samp_frac_num \in Nat /\ offset \in Nat /\ done_queue \in Nat
         /\ Computed \in Int
<1>1. /\ input_frames \in Nat \ {0} /\ input_channels \in Nat \ {0} /\ output_channels \in Nat \ {0}
      /\ num_rate \in Nat \ {0} /\ den_rate \in Nat \ {0} /\ output_frames \in Int
  BY DEF StreamInv, Ratio
<1>2. consumed_output_frames \in Int /\ frames \in Nat /\ total \in Nat /\ called \in Nat
      /\ Written \in Nat
  BY <1>1 DEF StreamInv, Counts, IsSeq
<1>3. last_sample \in Nat /\ samp_frac_num \in Nat /\ offset \in Nat /\ done_queue \in Nat
  BY <1>1 DEF StreamInv, InStep, OneBlock
<1>4. Computed \in Int
  BY <1>1, <1>2, LengthsAreNat DEF Computed
<1> QED
  BY <1>4, <1>1, <1>2, <1>3

\* A call of write has written nothing yet.
LEMMA WriteStep ==
  ASSUME StreamInv, NEW f \in Requests, Write(f)
  PROVE  StreamInv'
<1>1. f \in Nat
  BY ConverterAssumption
<1>2. pc = "idle" /\ pc' = "write" /\ frames = 0 /\ buffer = <<>> /\ frames' = f /\ buffer' = <<>>
  BY DEF Write, StreamInv, Counts
<1>3. UNCHANGED <<parameters, output, total, resampler_workspace, queues, offset, speex, called>>
  BY DEF Write
<1>4. Written' = Written /\ Written = 0
  BY <1>2, <1>3, CountsAreInts, EmptyBuffer DEF Written, parameters
<1>5. Ratio'
  BY <1>3, RatioStep DEF StreamInv
<1>6. Counts'
  BY <1>1, <1>2, <1>3, <1>4 DEF StreamInv, Counts, parameters, output, IsSeq
<1>7. OneBlock'
  BY <1>3 DEF StreamInv, OneBlock, parameters, queues
<1>8. InStep'
  BY <1>3, <1>4 DEF StreamInv, InStep, Stand, Computed, parameters, output, queues, speex
<1>9. WorkspaceInStream'
  <2>1. resampler_workspace' = <<>> /\ Len(<<>>) = 0 /\ <<>> \in Seq(Nat) /\ pc' # "resample"
    BY <1>2, <1>3, EmptySeq DEF StreamInv, WorkspaceInStream
  <2> QED
    BY <2>1 DEF WorkspaceInStream
<1>10. OutputInStream'
  BY <1>2, <1>3, <1>4, ExpectedSame DEF StreamInv, OutputInStream, parameters, output
<1>11. BufferInStream'
  BY <1>2, EmptyBuffer DEF BufferInStream
<1> QED
  BY <1>5, <1>6, <1>7, <1>8, <1>9, <1>10, <1>11 DEF StreamInv

\* When it returns, the stream goes on behind its frames.
LEMMA ReturnStep ==
  ASSUME StreamInv, Return
  PROVE  StreamInv'
<1>1. /\ pc = "write" /\ pc' = "idle" /\ frames' = 0 /\ buffer' = <<>>
      /\ Written = frames /\ total' = total + frames
  BY DEF Return
<1>2. UNCHANGED <<parameters, output, resampler_workspace, queues, offset, speex, called>>
  BY DEF Return
<1>3. Written' = 0
  <2>1. Written' = 0 \div output_channels
    BY <1>1, <1>2, EmptyBuffer DEF Written, parameters
  <2>2. output_channels \in Nat \ {0}
    BY CountsAreInts
  <2> QED
    BY <2>1, <2>2, EmptyBuffer
<1>4. total' + Written' = total + Written /\ total' \in Nat
  <2>1. PICK t \in Nat, f \in Nat : t = total /\ f = frames
    BY CountsAreInts
  <2>2. total' = t + f /\ Written = f
    BY <1>1, <2>1
  <2>3. t + f \in Nat /\ (t + f) + 0 = t + f
    OBVIOUS
  <2> QED
    BY <1>3, <2>1, <2>2, <2>3
<1>5. Ratio'
  BY <1>2, RatioStep DEF StreamInv
<1>6. Counts'
  <2>1. IsSeq(buffer)' /\ Len(buffer') = Written' * output_channels'
    BY <1>1, <1>2, <1>3, CountsAreInts, EmptyBuffer DEF parameters, IsSeq
  <2> QED
    BY <1>1, <1>2, <1>3, <1>4, <2>1 DEF StreamInv, Counts, parameters, output, IsSeq
<1>7. OneBlock'
  BY <1>2 DEF StreamInv, OneBlock, parameters, queues
<1>8. InStep'
  <2>1. Computed' = Computed
    BY <1>2, <1>4, CountsAreInts DEF Computed, parameters, output
  <2> QED
    BY <1>2, <2>1 DEF StreamInv, InStep, Stand, parameters, queues, speex
<1>9. WorkspaceInStream'
  <2>1. resampler_workspace' = <<>> /\ Len(<<>>) = 0 /\ <<>> \in Seq(Nat) /\ pc' # "resample"
    BY <1>1, <1>2, EmptySeq DEF StreamInv, WorkspaceInStream
  <2> QED
    BY <2>1 DEF WorkspaceInStream
<1>10. OutputInStream'
  <2>1. (total' + Written') - consumed_output_frames' = (total + Written) - consumed_output_frames
    <3>1. consumed_output_frames' = consumed_output_frames
      BY <1>2 DEF output
    <3>2. total' \in Int /\ Written' \in Int /\ total \in Int /\ Written \in Int
          /\ consumed_output_frames \in Int
      BY <1>3, <1>4, CountsAreInts
    <3> QED
      BY <1>4, <3>1, <3>2
  <2> QED
    BY <1>1, <1>2, <2>1, ExpectedSame DEF StreamInv, OutputInStream, parameters, output
<1>11. BufferInStream'
  BY <1>1, EmptyBuffer DEF BufferInStream
<1> QED
  BY <1>5, <1>6, <1>7, <1>8, <1>9, <1>10, <1>11 DEF StreamInv

\* Nothing to copy for a call that is not done: the output buffer is used up.
LEMMA UsedUp ==
  ASSUME StreamInv, pc = "write", Written # frames, WillWrite <= 0
  PROVE  consumed_output_frames = output_frames
<1>1. PICK W \in Nat, f \in Nat, of \in Int, c \in Int :
        /\ W = Written /\ f = frames /\ of = output_frames /\ c = consumed_output_frames
  BY CountsAreInts
<1>2. c <= of /\ W <= f
  BY <1>1 DEF StreamInv, Counts
<1>3. Lesser(f - W, of - c) <= 0 /\ W # f
  BY <1>1 DEF WillWrite
<1>4. of - c <= 0
  BY <1>2, <1>3 DEF Lesser
<1> QED
  BY <1>1, <1>2, <1>4

\* The resampler is called when the output buffer is used up.
LEMMA RefillByResamplingStep ==
  ASSUME StreamInv, RefillByResampling
  PROVE  StreamInv'
<1>1. /\ pc = "write" /\ pc' = "resample" /\ Written # frames /\ WillWrite <= 0
      /\ input_sr # output_sr /\ resampler_workspace' = <<>>
  BY DEF RefillByResampling
<1>2. UNCHANGED <<parameters, output, request, queues, offset, speex, called>>
  BY DEF RefillByResampling
<1>3. Written' = Written /\ resampler_workspace' = resampler_workspace
  BY <1>1, <1>2 DEF Written, parameters, request, StreamInv, WorkspaceInStream
<1>4. consumed_output_frames = output_frames
  BY <1>1, UsedUp
<1>5. Ratio'
  BY <1>2, RatioStep DEF StreamInv
<1>6. Counts'
  BY <1>1, <1>2, <1>3, <1>4 DEF StreamInv, Counts, parameters, output, request, IsSeq
<1>7. OneBlock'
  BY <1>2 DEF StreamInv, OneBlock, parameters, queues
<1>8. InStep'
  BY <1>2, <1>3 DEF StreamInv, InStep, Stand, Computed, parameters, output, request, queues, speex
<1>9. WorkspaceInStream'
  <2>1. Len(<<>>) = 0 /\ <<>> \in Seq(Nat)
    BY EmptySeq
  <2>2. output_frames > 0 /\ output_frames' = output_frames
    BY <1>1, <1>2 DEF StreamInv, Counts, parameters
  <2> QED
    BY <1>1, <2>1, <2>2, CountsAreInts DEF WorkspaceInStream
<1>10. OutputInStream'
  BY <1>1, <1>2, <1>3, ExpectedSame DEF StreamInv, OutputInStream, parameters, output, request
<1>11. BufferInStream'
  BY <1>2, ExpectedSame DEF StreamInv, BufferInStream, parameters, request
<1> QED
  BY <1>5, <1>6, <1>7, <1>8, <1>9, <1>10, <1>11 DEF StreamInv

\* Copy appends frames of the output buffer, which belong behind what is there.
LEMMA CopyStep ==
  ASSUME StreamInv, Copy
  PROVE  StreamInv'
<1>1. /\ pc = "write" /\ Written # frames /\ WillWrite > 0
      /\ buffer' = buffer \o SubSeq(output_buffer,
                                    consumed_output_frames * output_channels + 1,
                                    (consumed_output_frames + WillWrite) * output_channels)
      /\ consumed_output_frames' = consumed_output_frames + WillWrite
  BY DEF Copy
<1>2. UNCHANGED <<parameters, output_buffer, pc, frames, total, resampler_workspace, queues,
                  offset, speex, called>>
  BY DEF Copy
<1>3. PICK W \in Nat, w \in Nat, oc \in Nat \ {0}, c \in Nat, of \in Nat :
        /\ W = Written /\ w = WillWrite /\ oc = output_channels /\ c = consumed_output_frames
        /\ of = output_frames /\ w > 0 /\ W + w <= frames /\ c + w <= of
  <2>1. PICK W \in Nat, w \in Int, oc \in Nat \ {0}, c \in Int, of \in Int, f \in Nat :
          /\ W = Written /\ oc = output_channels /\ c = consumed_output_frames
          /\ of = output_frames /\ f = frames /\ w = Lesser(f - W, of - c)
    <3>1. PICK W \in Nat, oc \in Nat \ {0}, c \in Int, of \in Int, f \in Nat :
            /\ W = Written /\ oc = output_channels /\ c = consumed_output_frames
            /\ of = output_frames /\ f = frames
      BY CountsAreInts
    <3>2. Lesser(f - W, of - c) \in Int
      BY DEF Lesser
    <3> QED
      BY <3>1, <3>2
  <2>2. w = WillWrite
    BY <2>1 DEF WillWrite
  <2>3. w > 0
    BY <1>1, <2>2
  <2>4. W <= f /\ c \in 0 .. of
    BY <1>1, <2>1 DEF StreamInv, Counts
  <2>5. W + w <= f /\ c + w <= of
    BY <2>1, <2>4 DEF Lesser
  <2>6. w \in Nat /\ c \in Nat /\ of \in Nat
    BY <2>3, <2>4
  <2> QED
    BY <2>1, <2>2, <2>3, <2>5, <2>6
<1>4. IsSeq(buffer) /\ IsSeq(output_buffer) /\ Len(buffer) = W * oc /\ Len(output_buffer) = of * oc
  BY <1>1, <1>3 DEF StreamInv, Counts
<1>5. PICK a \in Nat, b \in Nat, L \in Nat, M \in Nat :
        /\ a = c * oc + 1 /\ b = (c + w) * oc /\ L = W * oc /\ M = of * oc
        /\ b - a + 1 = w * oc /\ a \in 1 .. M + 1 /\ b \in a - 1 .. M
        /\ L + w * oc = (W + w) * oc
  <2>1. (c + w) * oc = c * oc + w * oc /\ (W + w) * oc = W * oc + w * oc
    OBVIOUS
  <2>2. of * oc = c * oc + (of - c) * oc
    OBVIOUS
  <2>3. w * oc <= (of - c) * oc
    BY <1>3
  <2>4. c * oc \in Nat /\ w * oc \in Nat /\ W * oc \in Nat /\ of * oc \in Nat /\ (of - c) * oc \in Nat
    BY <1>3
  <2> QED
    BY <2>1, <2>2, <2>3, <2>4
<1>6. buffer' = buffer \o SubSeq(output_buffer, a, b)
  BY <1>1, <1>3, <1>5
<1>7. /\ IsSeq(buffer') /\ Len(buffer') = (W + w) * oc
      /\ \A k \in 1 .. L : buffer'[k] = buffer[k]
      /\ \A k \in L + 1 .. (W + w) * oc : buffer'[k] = output_buffer[a + (k - L) - 1]
  <2>1. /\ IsSeq(buffer \o SubSeq(output_buffer, a, b))
        /\ Len(buffer \o SubSeq(output_buffer, a, b)) = Len(buffer) + b - a + 1
        /\ \A k \in 1 .. Len(buffer) : (buffer \o SubSeq(output_buffer, a, b))[k] = buffer[k]
        /\ \A k \in Len(buffer) + 1 .. Len(buffer) + b - a + 1 :
             (buffer \o SubSeq(output_buffer, a, b))[k] = output_buffer[a + (k - Len(buffer)) - 1]
    <3>1. a \in 1 .. Len(output_buffer) + 1 /\ b \in a - 1 .. Len(output_buffer)
      BY <1>4, <1>5
    <3>2. IsSeq(buffer) /\ IsSeq(output_buffer)
      BY <1>4
    <3> QED
      BY <3>1, <3>2, Appended
  <2>2. Len(buffer) = L /\ L + b - a + 1 = (W + w) * oc
    BY <1>4, <1>5
  <2> QED
    BY <1>6, <2>1, <2>2
<1>8. Written' = W + w
  <2>1. Written' = Len(buffer') \div oc
    BY <1>2, <1>3 DEF Written, parameters
  <2>2. ((W + w) * oc + 0) \div oc = W + w /\ (W + w) * oc + 0 = (W + w) * oc
    BY DivModUnique
  <2> QED
    BY <1>7, <2>1, <2>2
<1>9. Ratio'
  BY <1>2, RatioStep DEF StreamInv
<1>10. Counts'
  <2>1. IsSeq(buffer)' /\ IsSeq(output_buffer)'
    BY <1>2, <1>4, <1>7 DEF IsSeq
  <2>2. Len(buffer') = Written' * output_channels'
    BY <1>2, <1>3, <1>7, <1>8 DEF parameters
  <2>3. consumed_output_frames' \in 0 .. output_frames'
    BY <1>1, <1>2, <1>3 DEF parameters
  <2> QED
    BY <1>1, <1>2, <1>3, <1>8, <2>1, <2>2, <2>3 DEF StreamInv, Counts, parameters
<1>11. OneBlock'
  BY <1>2 DEF StreamInv, OneBlock, parameters, queues
<1>12. InStep'
  <2>1. Computed' = Computed
    <3>1. consumed_output_frames' = c + w /\ output_frames' = of /\ total' = total
          /\ resampler_workspace' = resampler_workspace
      BY <1>1, <1>2, <1>3 DEF parameters
    <3>2. PICK t \in Nat, l \in Nat : t = total /\ l = Len(resampler_workspace)
      BY CountsAreInts, LengthsAreNat
    <3>3. Computed = t + W + of - c + l
      BY <1>3, <3>2 DEF Computed
    <3>4. Computed' = t + (W + w) + of - (c + w) + l
      BY <1>8, <3>1, <3>2 DEF Computed
    <3>5. t + W + of - c + l = t + (W + w) + of - (c + w) + l
      OBVIOUS
    <3> QED
      BY <3>3, <3>4, <3>5
  <2> QED
    BY <1>2, <2>1 DEF StreamInv, InStep, Stand, parameters, queues, speex
<1>13. WorkspaceInStream'
  <2>1. resampler_workspace' = <<>> /\ Len(<<>>) = 0 /\ <<>> \in Seq(Nat) /\ pc' # "resample"
    BY <1>1, <1>2, EmptySeq DEF StreamInv, WorkspaceInStream
  <2> QED
    BY <2>1 DEF WorkspaceInStream
<1>14. OutputInStream'
  <2>1. (total' + Written') - consumed_output_frames' = (total + Written) - consumed_output_frames
    <3>1. total' = total /\ total \in Nat /\ consumed_output_frames' = c + w
      BY <1>1, <1>2, <1>3, CountsAreInts
    <3> QED
      BY <1>3, <1>8, <3>1
  <2>2. ASSUME NEW k \in (consumed_output_frames * output_channels + 1 .. Len(output_buffer))'
        PROVE  k \in consumed_output_frames * output_channels + 1 .. Len(output_buffer)
    <3>1. k \in (c + w) * oc + 1 .. M
      BY <1>1, <1>2, <1>3, <1>4, <1>5 DEF parameters
    <3>2. k \in c * oc + 1 .. M
      BY <1>5, <3>1
    <3> QED
      BY <1>3, <1>4, <1>5, <3>2
  <2> QED
    BY <1>1, <1>2, <2>1, <2>2, ExpectedSame DEF StreamInv, OutputInStream, parameters
<1>15. BufferInStream'
  <2>1. ASSUME NEW k \in 1 .. (W + w) * oc  PROVE  buffer'[k] = Expected(total, k)
    <3>1. CASE k \in 1 .. L
      BY <1>3, <1>4, <1>5, <1>7, <3>1 DEF StreamInv, BufferInStream
    <3>2. CASE k \in L + 1 .. (W + w) * oc
      <4> DEFINE h == a + (k - L) - 1
      <4>1. h \in a .. M /\ h - 1 = (k - 1) + (c - W) * oc
        <5>1. (c - W) * oc = c * oc - W * oc /\ c * oc \in Int /\ W * oc \in Int
          OBVIOUS
        <5> QED
          BY <1>5, <3>2, <5>1
      <4>2. buffer'[k] = output_buffer[h]
        BY <1>7, <3>2
      <4>3. output_buffer[h] = Expected((total + Written) - consumed_output_frames, h)
        <5>1. h \in consumed_output_frames * output_channels + 1 .. Len(output_buffer)
          BY <1>3, <1>4, <1>5, <4>1
        <5> HIDE DEF h
        <5> QED
          BY <1>1, <5>1 DEF StreamInv, OutputInStream
      <4>4. FrameOf(h) = FrameOf(k) + (c - W) /\ ChannelOf(h) = ChannelOf(k)
        <5>1. k - 1 \in Int /\ c - W \in Int
          OBVIOUS
        <5>2. /\ ((k - 1) + (c - W) * oc) \div oc = ((k - 1) \div oc) + (c - W)
              /\ ((k - 1) + (c - W) * oc) % oc = (k - 1) % oc
          BY <5>1, DivModShift
        <5> HIDE DEF h
        <5> QED
          BY <1>3, <4>1, <5>2 DEF FrameOf, ChannelOf
      <4>5. ((total + Written) - consumed_output_frames) + FrameOf(h) = total + FrameOf(k)
        <5>1. FrameOf(k) \in Int
          <6>1. k - 1 \in Int
            OBVIOUS
          <6> QED
            BY <1>3, <6>1, DivMod DEF FrameOf
        <5>2. total \in Int /\ Written = W /\ consumed_output_frames = c
          BY <1>3, CountsAreInts
        <5> HIDE DEF h
        <5> QED
          BY <4>4, <5>1, <5>2
      <4> HIDE DEF h
      <4> QED
        BY <4>2, <4>3, <4>4, <4>5 DEF Expected
    <3> QED
      BY <1>5, <3>1, <3>2
  <2>2. total' = total /\ Len(buffer') = (W + w) * oc
    BY <1>2, <1>7
  <2> QED
    BY <1>2, <2>1, <2>2, ExpectedSame DEF BufferInStream
<1> QED
  BY <1>9, <1>10, <1>11, <1>12, <1>13, <1>14, <1>15 DEF StreamInv

\* The next block of the callback.
LEMMA BlockIs ==
  ASSUME StreamInv
  PROVE  /\ Len(Block) = input_frames
         /\ \A i \in 1 .. input_frames : Block[i] = called * input_frames + i - 1 /\ Block[i] \in Nat
<1>1. called \in Nat /\ input_frames \in Nat \ {0}
  BY CountsAreInts
<1>2. called * input_frames \in Nat
  BY <1>1
<1>3. \A i \in 1 .. input_frames : called * input_frames + i - 1 \in Nat
  BY <1>1, <1>2
<1>4. Block \in [1 .. input_frames -> Nat]
  BY <1>3 DEF Block
<1>5. Len(Block) = input_frames
  BY <1>1, <1>4, FunctionIsSeq
<1> QED
  BY <1>3, <1>5 DEF Block

\* A refill of the output buffer with frames that begin where the stream does.
LEMMA Refill ==
  ASSUME StreamInv, NEW positions, Len(positions) = output_frames, output_frames \in Nat,
         UNCHANGED parameters, UNCHANGED total, Written' = Written,
         consumed_output_frames' = 0, output_buffer' = Remixed(positions),
         \A i \in 1 .. output_frames : /\ positions[i] \in Nat
                                       /\ positions[i] = PositionOf(total + Written + i - 1)
  PROVE  /\ IsSeq(output_buffer)' /\ Len(output_buffer') = output_frames' * output_channels'
         /\ OutputInStream'
<1>1. output_channels \in Nat \ {0} /\ input_channels \in Nat \ {0} /\ total \in Nat /\ Written \in Nat
  BY CountsAreInts
<1>2. /\ IsSeq(Remixed(positions)) /\ Len(Remixed(positions)) = output_frames * output_channels
      /\ \A k \in 1 .. output_frames * output_channels :
           Remixed(positions)[k] = RemixedFrame(positions[FrameOf(k) + 1])[ChannelOf(k)]
  BY <1>1, RemixAgrees
<1>3. ASSUME NEW k \in 1 .. output_frames * output_channels
      PROVE  Remixed(positions)[k] = Expected(total + Written, k)
  <2>1. FrameOf(k) \in 0 .. output_frames - 1
    BY <1>1, Interleaved DEF FrameOf
  <2>2. PICK f \in Nat : f = FrameOf(k) /\ f + 1 \in 1 .. output_frames
    BY <2>1
  <2>3. total + Written + (f + 1) - 1 = (total + Written) + f
    BY <1>1
  <2>4. positions[f + 1] = PositionOf((total + Written) + f)
    BY <2>2, <2>3
  <2> QED
    BY <1>2, <2>2, <2>4 DEF Expected
<1>4. IsSeq(output_buffer)' /\ Len(output_buffer') = output_frames' * output_channels'
  BY <1>2 DEF IsSeq, parameters
<1>5. OutputInStream'
  <2>1. (total' + Written') - consumed_output_frames' = total + Written
    BY <1>1
  <2>2. consumed_output_frames' * output_channels' + 1 = 1
    BY <1>1 DEF parameters
  <2>3. Len(output_buffer') = output_frames * output_channels
    BY <1>2
  <2> QED
    BY <1>3, <2>1, <2>2, <2>3, ExpectedSame DEF OutputInStream
<1> QED
  BY <1>4, <1>5

-----------------------------------------------------------------------------
(* The actions of refillOutputBuffer.                                      *)

\* The count when the output buffer is used up.
LEMMA ComputedIs ==
  ASSUME StreamInv, consumed_output_frames = output_frames
  PROVE  Computed = total + Written + Len(resampler_workspace)
<1>1. PICK t \in Nat, W \in Nat, of \in Int, l \in Nat :
        t = total /\ W = Written /\ of = output_frames /\ l = Len(resampler_workspace)
  BY CountsAreInts, LengthsAreNat
<1>2. Computed = t + W + of - of + l
  BY <1>1 DEF Computed
<1>3. t + W + of - of + l = t + W + l
  OBVIOUS
<1> QED
  BY <1>1, <1>2, <1>3

\* With equal rates the next block begins where the output buffer ended.
LEMMA RefillDirectlyStep ==
  ASSUME StreamInv, RefillDirectly
  PROVE  StreamInv'
<1>1. /\ pc = "write" /\ Written # frames /\ WillWrite <= 0 /\ input_sr = output_sr
      /\ output_buffer' = Remixed(Block) /\ called' = called + 1 /\ consumed_output_frames' = 0
  BY DEF RefillDirectly
<1>2. UNCHANGED <<parameters, pc, request, resampler_workspace, queues, offset, speex>>
  BY DEF RefillDirectly
<1>3. Written' = Written
  BY <1>2 DEF Written, parameters, request
<1>4. consumed_output_frames = output_frames /\ output_frames = input_frames
      /\ resampler_workspace = <<>> /\ Len(resampler_workspace) = 0
  <2>1. consumed_output_frames = output_frames
    BY <1>1, UsedUp
  <2>2. resampler_workspace = <<>>
    BY <1>1 DEF StreamInv, WorkspaceInStream
  <2>3. output_frames = input_frames
    BY <1>1 DEF StreamInv, Ratio
  <2> QED
    BY <2>1, <2>2, <2>3, EmptySeq
<1>5. called * input_frames = total + Written
  <2>1. called * input_frames = Computed
    BY <1>1 DEF StreamInv, InStep
  <2>2. Computed = total + Written + 0
    BY <1>4, ComputedIs
  <2>3. PICK t \in Nat, W \in Nat : t = total /\ W = Written
    BY CountsAreInts
  <2> QED
    BY <2>1, <2>2, <2>3
<1>6. /\ IsSeq(output_buffer)' /\ Len(output_buffer') = output_frames' * output_channels'
      /\ OutputInStream'
  <2>1. Len(Block) = output_frames /\ output_frames \in Nat /\ total' = total
    BY <1>2, <1>4, BlockIs, CountsAreInts DEF request
  <2>2. ASSUME NEW i \in 1 .. output_frames
        PROVE  Block[i] \in Nat /\ Block[i] = PositionOf(total + Written + i - 1)
    <3>1. Block[i] = called * input_frames + i - 1 /\ Block[i] \in Nat
      BY <1>4, BlockIs
    <3>2. PICK x \in Nat : x = Block[i] /\ x = total + Written + i - 1
      BY <1>5, <3>1, CountsAreInts
    <3>3. PositionOf(x) = x
      BY <1>1, PositionAtEqualRates DEF StreamInv
    <3> QED
      BY <3>2, <3>3
  <2> QED
    BY <1>1, <1>2, <1>3, <2>1, <2>2, Refill
<1>7. Ratio'
  BY <1>2, RatioStep DEF StreamInv
<1>8. Counts'
  <2>1. called' \in Nat
    <3>1. called' = called + 1
      BY <1>1
    <3>2. called \in Nat
      BY CountsAreInts
    <3> QED
      BY <3>1, <3>2
  <2>2. consumed_output_frames' \in 0 .. output_frames'
    <3>1. consumed_output_frames' = 0 /\ output_frames' = input_frames
      BY <1>1, <1>2, <1>4 DEF parameters
    <3>2. 0 \in 0 .. input_frames
      BY CountsAreInts
    <3> QED
      BY <3>1, <3>2
  <2> QED
    BY <1>1, <1>2, <1>3, <1>6, <2>1, <2>2 DEF StreamInv, Counts, parameters, request, IsSeq
<1>9. OneBlock'
  <2>1. queue = <<>>
    BY <1>1 DEF StreamInv, OneBlock
  <2> QED
    BY <1>1, <1>2, <2>1 DEF StreamInv, OneBlock, parameters, queues
<1>10. InStep'
  <2>1. PICK c \in Nat, b \in Nat, t \in Nat, W \in Nat :
          c = called /\ b = input_frames /\ t = total /\ W = Written
    BY CountsAreInts
  <2>2. called' = c + 1 /\ input_frames' = b
    BY <1>1, <1>2, <2>1 DEF parameters
  <2>3. called' * input_frames' = Computed'
    <3>1. Computed' = t + W + b - 0 + 0
      BY <1>1, <1>2, <1>3, <1>4, <2>1 DEF Computed, parameters, request
    <3>2. c * b = t + W
      BY <1>5, <2>1
    <3>3. (c + 1) * b = c * b + b
      OBVIOUS
    <3>4. t + W + b - 0 + 0 = (t + W) + b
      OBVIOUS
    <3> QED
      BY <2>2, <3>1, <3>2, <3>3, <3>4
  <2> QED
    BY <1>1, <1>2, <2>3 DEF StreamInv, InStep, parameters, speex
<1>11. WorkspaceInStream'
  <2>1. resampler_workspace' = <<>> /\ Len(<<>>) = 0 /\ <<>> \in Seq(Nat) /\ pc' # "resample"
    BY <1>1, <1>2, EmptySeq DEF StreamInv, WorkspaceInStream
  <2> QED
    BY <2>1 DEF WorkspaceInStream
<1>12. BufferInStream'
  BY <1>2, ExpectedSame DEF StreamInv, BufferInStream, parameters, request
<1> QED
  BY <1>6, <1>7, <1>8, <1>9, <1>10, <1>11, <1>12 DEF StreamInv

\* With different rates the output buffer takes the frames of the workspace.
LEMMA RefilledStep ==
  ASSUME StreamInv, Refilled
  PROVE  StreamInv'
<1>1. /\ pc = "resample" /\ pc' = "write" /\ Len(resampler_workspace) >= output_frames
      /\ output_buffer' = Remixed(resampler_workspace) /\ consumed_output_frames' = 0
      /\ resampler_workspace' = <<>>
  BY DEF Refilled
<1>2. UNCHANGED <<parameters, request, queues, offset, speex, called>>
  BY DEF Refilled
<1>3. Written' = Written
  BY <1>2 DEF Written, parameters, request
<1>4. /\ consumed_output_frames = output_frames /\ output_frames > 0
      /\ Len(resampler_workspace) = output_frames
  <2>1. consumed_output_frames = output_frames /\ output_frames > 0
    BY <1>1 DEF StreamInv, Counts
  <2>2. PICK l \in Nat, of \in Int : l = Len(resampler_workspace) /\ of = output_frames
    BY CountsAreInts, LengthsAreNat
  <2>3. l <= of /\ l >= of
    BY <1>1, <2>2 DEF StreamInv, WorkspaceInStream
  <2> QED
    BY <2>1, <2>2, <2>3
<1>5. Len(<<>>) = 0 /\ <<>> \in Seq(Nat)
  BY EmptySeq
<1>6. /\ IsSeq(output_buffer)' /\ Len(output_buffer') = output_frames' * output_channels'
      /\ OutputInStream'
  <2>1. output_frames \in Nat /\ total' = total
    BY <1>2, <1>4, CountsAreInts DEF request
  <2>2. \A i \in 1 .. output_frames :
          /\ resampler_workspace[i] \in Nat
          /\ resampler_workspace[i] = PositionOf(total + Written + i - 1)
    BY <1>4, ElementOfSeq DEF StreamInv, WorkspaceInStream
  <2> QED
    BY <1>1, <1>2, <1>3, <1>4, <2>1, <2>2, Refill
<1>7. Ratio'
  BY <1>2, RatioStep DEF StreamInv
<1>8. Counts'
  <2>1. consumed_output_frames' \in 0 .. output_frames'
    BY <1>1, <1>2, <1>4, CountsAreInts DEF parameters
  <2> QED
    BY <1>1, <1>2, <1>3, <1>6, <2>1 DEF StreamInv, Counts, parameters, request, IsSeq
<1>9. OneBlock'
  BY <1>2 DEF StreamInv, OneBlock, parameters, queues
<1>10. InStep'
  <2>1. Computed' = Computed
    <3>1. PICK t \in Nat, W \in Nat, of \in Int : t = total /\ W = Written /\ of = output_frames
      BY CountsAreInts
    <3>2. Computed = t + W + of
      BY <1>4, <3>1, ComputedIs
    <3>3. Computed' = t + W + of - 0 + 0
      BY <1>1, <1>2, <1>3, <1>5, <3>1 DEF Computed, parameters, request
    <3>4. t + W + of - 0 + 0 = t + W + of
      OBVIOUS
    <3> QED
      BY <3>2, <3>3, <3>4
  <2> QED
    BY <1>2, <2>1 DEF StreamInv, InStep, Stand, parameters, queues, speex
<1>11. WorkspaceInStream'
  BY <1>1, <1>5 DEF WorkspaceInStream
<1>12. BufferInStream'
  BY <1>2, ExpectedSame DEF StreamInv, BufferInStream, parameters, request
<1> QED
  BY <1>6, <1>7, <1>8, <1>9, <1>10, <1>11, <1>12 DEF StreamInv

\* The resampler's queue with one block.
LEMMA OneElement ==
  ASSUME NEW x
  PROVE  /\ Append(<<>>, x) = <<x>> /\ <<x>> # <<>> /\ Head(<<x>>) = x /\ Tail(<<x>>) = <<>>
<1>1. <<x>> \in Seq({x}) /\ Len(<<x>>) = 1 /\ <<x>>[1] = x /\ <<>> \in Seq({x}) /\ Len(<<>>) = 0
  OBVIOUS
<1>2. <<x>> # <<>> /\ Head(<<x>>) = x
  BY <1>1
<1>3. Tail(<<x>>) \in Seq({x}) /\ Len(Tail(<<x>>)) = 0
  BY <1>1, <1>2, HeadTailProperties
<1>4. Tail(<<x>>) = <<>>
  BY <1>3, EmptySeq
<1>5. Append(<<>>, x) \in Seq({x}) /\ Len(Append(<<>>, x)) = 1 /\ Append(<<>>, x)[1] = x
  BY <1>1, AppendProperties
<1>6. Append(<<>>, x) = <<x>>
  <2>1. \A i \in 1 .. Len(<<x>>) : Append(<<>>, x)[i] = <<x>>[i]
    BY <1>1, <1>5
  <2> QED
    BY <1>1, <1>5, <2>1, SeqEqual
<1> QED
  BY <1>2, <1>4, <1>6

\* The callback is called when Speex has left behind all frames it produced.
LEMMA PullIsNeeded ==
  ASSUME StreamInv, Pull
  PROVE  /\ queue = <<>> /\ offset = 0 /\ Stand = called * input_frames
         /\ input_sr # output_sr /\ pc = "resample"
<1>1. queue = <<>>
  <2>1. ResamplerReturns /\ Len(resampler_workspace) < output_frames
    BY DEF Pull
  <2>2. ~ (Len(resampler_workspace) >= output_frames)
    <3>1. PICK l \in Nat, of \in Int : l = Len(resampler_workspace) /\ of = output_frames
      BY CountsAreInts, LengthsAreNat
    <3>2. l < of => ~ (l >= of)
      OBVIOUS
    <3> QED
      BY <2>1, <3>1, <3>2
  <2> QED
    BY <2>1, <2>2 DEF ResamplerReturns
<1> QED
  BY <1>1 DEF Pull, StreamInv, Counts, OneBlock, Stand

\* The block pulled begins where Speex has left the input.
LEMMA PullStep ==
  ASSUME StreamInv, Pull
  PROVE  StreamInv'
<1>1. /\ pc = "resample" /\ queue' = Append(queue, Block) /\ called' = called + 1
      /\ done_queue' = Spare
  BY DEF Pull
<1>2. UNCHANGED <<parameters, output, pc, request, resampler_workspace, offset, speex>>
  BY DEF Pull
<1>3. queue = <<>> /\ offset = 0 /\ Stand = called * input_frames /\ input_sr # output_sr
  BY PullIsNeeded
<1>4. queue' = <<Block>> /\ queue' # <<>>
  <2>1. Append(<<>>, Block) = <<Block>> /\ <<Block>> # <<>>
    BY OneElement
  <2> QED
    BY <1>1, <1>3, <2>1
<1>5. Written' = Written
  BY <1>2 DEF Written, parameters, request
<1>6. called' - 1 = called /\ called' \in Nat /\ called' > 0
  <2>1. called' = called + 1
    BY <1>1
  <2>2. called \in Nat
    BY CountsAreInts
  <2> QED
    BY <2>1, <2>2
<1>7. Ratio'
  BY <1>2, RatioStep DEF StreamInv
<1>8. Counts'
  BY <1>2, <1>5, <1>6 DEF StreamInv, Counts, parameters, output, request, IsSeq
<1>9. OneBlock'
  <2>1. queue' = << [i \in 1 .. input_frames' |-> (called' - 1) * input_frames' + i - 1] >>
    BY <1>2, <1>4, <1>6 DEF Block, parameters
  <2>2. done_queue' = 0
    BY <1>1 DEF StreamInv, OneBlock, Spare
  <2> QED
    BY <1>2, <1>3, <1>4, <1>6, <2>1, <2>2 DEF StreamInv, OneBlock, parameters
<1>10. InStep'
  <2>1. Computed' = Computed
    BY <1>2, <1>5 DEF Computed, parameters, output, request
  <2>2. Stand' = Stand
    <3>1. Stand' = (called' - 1) * input_frames' + offset'
      BY <1>4 DEF Stand
    <3>2. called * input_frames \in Int
      BY CountsAreInts
    <3> QED
      BY <1>2, <1>3, <1>6, <3>1, <3>2 DEF parameters
  <2> QED
    BY <1>2, <1>3, <2>1, <2>2 DEF StreamInv, InStep, parameters, speex
<1>11. WorkspaceInStream'
  BY <1>2, <1>5, PositionSame DEF StreamInv, WorkspaceInStream, parameters, request
<1>12. OutputInStream'
  BY <1>2, <1>5, ExpectedSame DEF StreamInv, OutputInStream, parameters, output, request
<1>13. BufferInStream'
  BY <1>2, ExpectedSame DEF StreamInv, BufferInStream, parameters, request
<1> QED
  BY <1>7, <1>8, <1>9, <1>10, <1>11, <1>12, <1>13 DEF StreamInv

\* Where Speex walks is where the frames of the stream are.
LEMMA WalkIsStream ==
  ASSUME StreamInv, input_sr # output_sr, pc # "thrown", NEW k \in Nat
  PROVE  /\ Stand \in Nat /\ Computed \in Nat /\ At(k) \in Nat
         /\ Walk(k) + Stand * den_rate = (Computed + k) * num_rate
         /\ Stand + At(k) = PositionOf(Computed + k)
<1>1. PICK nm \in Nat \ {0}, dn \in Nat \ {0}, la \in Nat, fr \in Nat :
        nm = num_rate /\ dn = den_rate /\ la = last_sample /\ fr = samp_frac_num
  BY CountsAreInts
<1>2. PICK C \in Nat : C = Computed
  <2>1. PICK of \in Int, c \in Int, to \in Nat, W \in Nat, L \in Nat :
          /\ c \in 0 .. of /\ of = output_frames /\ c = consumed_output_frames /\ to = total /\ W = Written
          /\ L = Len(resampler_workspace)
    BY CountsAreInts, LengthsAreNat DEF StreamInv, Counts
  <2>2. Computed = to + W + of - c + L
    BY <2>1 DEF Computed
  <2>3. to + W + of - c + L \in Nat
    BY <2>1
  <2> QED
    BY <2>2, <2>3
<1>3. PICK st \in Nat : st = Stand
  <2>1. CASE queue = <<>>
    <3>1. called * input_frames \in Nat
      BY CountsAreInts
    <3> QED
      BY <2>1, <3>1 DEF Stand
  <2>2. CASE queue # <<>>
    <3>1. called > 0
      BY <2>2 DEF StreamInv, OneBlock
    <3>2. PICK c \in Nat, b \in Nat, o \in Nat :
            c = called /\ c > 0 /\ b = input_frames /\ o = offset
      BY <3>1, CountsAreInts
    <3>3. (c - 1) * b + o \in Nat
      <4>1. c - 1 \in Nat
        BY <3>2
      <4>2. (c - 1) * b \in Nat
        BY <4>1
      <4> QED
        BY <4>2
    <3>4. Stand = (c - 1) * b + o
      BY <2>2, <3>2 DEF Stand
    <3> QED
      BY <3>3, <3>4
  <2> QED
    BY <2>1, <2>2
<1>4. (st + la) * dn + fr = C * nm
  BY <1>1, <1>2, <1>3 DEF StreamInv, InStep
<1>5. Walk(k) = la * dn + fr + k * nm /\ At(k) = Walk(k) \div dn
  BY <1>1 DEF Walk, At
<1>6. PICK w \in Nat : w = Walk(k) /\ w = la * dn + fr + k * nm
  <2>1. la * dn \in Nat /\ k * nm \in Nat
    OBVIOUS
  <2> QED
    BY <1>5, <2>1
<1>7. w + st * dn = (C + k) * nm
  <2>1. (st + la) * dn = st * dn + la * dn /\ (C + k) * nm = C * nm + k * nm
    OBVIOUS
  <2>2. st * dn \in Int /\ la * dn \in Int /\ C * nm \in Int /\ k * nm \in Int
    OBVIOUS
  <2> QED
    BY <1>4, <1>6, <2>1, <2>2
<1>8. (w + st * dn) \div dn = (w \div dn) + st
  BY DivModShift
<1>9. w \div dn \in Nat
  BY DivNat
<1>10. PositionOf(C + k) = ((C + k) * nm) \div dn
  <2>1. C + k \in Nat
    OBVIOUS
  <2> QED
    BY <1>1, <2>1, PositionInLowestTerms DEF StreamInv
<1>11. PositionOf(C + k) = st + At(k)
  <2>1. PositionOf(C + k) = (w + st * dn) \div dn
    BY <1>7, <1>10
  <2>2. At(k) = w \div dn
    BY <1>5, <1>6
  <2> QED
    BY <1>8, <1>9, <2>1, <2>2
<1> QED
  BY <1>1, <1>2, <1>3, <1>5, <1>6, <1>7, <1>9, <1>11

\* A round of Speex computes the next frames of the stream and leaves the input
\* behind that they do not need.
LEMMA ResamplerWriteStep ==
  ASSUME StreamInv, ResamplerWrite
  PROVE  StreamInv'
<1> DEFINE ilen == Lesser(XLen, input_frames - offset)
           outs == OutSamples(ilen, output_frames - Len(resampler_workspace))
           used == Lesser(At(outs), ilen)
           left == input_frames - offset - used
           more == [i \in 1 .. outs |-> Head(queue)[1] + offset + At(i - 1)]
<1>1. /\ pc = "resample" /\ ~ResamplerReturns
      /\ resampler_workspace' = resampler_workspace \o more
      /\ samp_frac_num' = Walk(outs) % den_rate
      /\ last_sample' = At(outs) - used
      /\ offset' = IF left = 0 THEN 0 ELSE offset + used
      /\ queue' = IF left = 0 THEN Tail(queue) ELSE queue
      /\ done_queue' = IF left = 0 THEN done_queue + 1 ELSE done_queue
  BY DEF ResamplerWrite, LastSample
<1>2. UNCHANGED <<parameters, output, pc, request, called>>
  BY DEF ResamplerWrite
<1>3. queue # <<>> /\ called > 0 /\ input_sr # output_sr /\ done_queue = 0 /\ offset < input_frames
  <2>1. queue # <<>>
    BY <1>1 DEF ResamplerReturns
  <2>2. called > 0 /\ input_sr # output_sr /\ done_queue = 0 /\ offset \in 0 .. input_frames - 1
    BY <2>1 DEF StreamInv, OneBlock
  <2>3. input_frames \in Nat
    BY CountsAreInts
  <2> QED
    BY <2>1, <2>2, <2>3
<1>4. consumed_output_frames = output_frames /\ Len(resampler_workspace) < output_frames
  <2>1. PICK l \in Nat, of \in Int : l = Len(resampler_workspace) /\ of = output_frames
    BY CountsAreInts, LengthsAreNat
  <2>2. ~ (l >= of) /\ consumed_output_frames = output_frames
    BY <1>1, <2>1 DEF StreamInv, Counts, ResamplerReturns
  <2>3. l < of
    BY <2>2
  <2> QED
    BY <2>1, <2>2, <2>3
<1>5. ilen \in Nat /\ ilen <= input_frames - offset
  <2>1. PICK x \in Nat, b \in Nat, o \in Nat : x = XLen /\ b = input_frames /\ o = offset /\ o < b
    BY <1>3, ConverterAssumption, CountsAreInts
  <2>2. ilen = Lesser(x, b - o)
    BY <2>1
  <2>3. Lesser(x, b - o) \in Nat /\ Lesser(x, b - o) <= b - o
    BY <2>1 DEF Lesser
  <2> QED
    BY <2>1, <2>2, <2>3
<1>6. outs \in Nat /\ outs <= output_frames - Len(resampler_workspace)
  <2>1. PICK l \in Nat, of \in Int : l = Len(resampler_workspace) /\ of = output_frames /\ l < of
    BY <1>4, CountsAreInts, LengthsAreNat
  <2>2. PICK olen \in Nat : olen = of - l /\ olen = output_frames - Len(resampler_workspace)
    BY <2>1
  <2>3. PICK il \in Int : il = ilen
    BY <1>5
  <2>4. OutSamples(il, olen) \in 0 .. olen
    BY CountsAreInts, OutSamplesExists
  <2> QED
    BY <2>2, <2>3, <2>4
<1> HIDE DEF ilen, outs, left
<1>7. At(outs) \in Nat /\ Walk(outs) \in Nat /\ Walk(outs) % den_rate \in 0 .. den_rate - 1
      /\ Walk(outs) = den_rate * At(outs) + (Walk(outs) % den_rate)
  BY <1>6, CountsAreInts, AtIsInt
<1>8. used \in Nat /\ used <= ilen /\ used <= At(outs)
  BY <1>5, <1>7 DEF Lesser
<1> HIDE DEF used
<1>9. PICK b \in Nat, o \in Nat, h \in Nat :
        /\ b = input_frames /\ o = offset /\ h = used /\ o + h <= b
        /\ left = b - o - h
  <2>1. PICK b \in Nat, o \in Nat, h \in Nat, l \in Nat :
          /\ b = input_frames /\ o = offset /\ h = used /\ l = ilen
          /\ h <= l
    BY <1>5, <1>8, CountsAreInts
  <2>2. l <= b - o
    BY <1>5, <2>1
  <2>3. left = b - o - h
    BY <2>1 DEF left
  <2> QED
    BY <2>1, <2>2, <2>3
<1>10. Stand = (called - 1) * input_frames + offset /\ Head(queue)[1] = (called - 1) * input_frames
       /\ Tail(queue) = <<>>
  <2>1. queue = << [i \in 1 .. input_frames |-> (called - 1) * input_frames + i - 1] >>
    BY <1>3 DEF StreamInv, OneBlock
  <2> DEFINE B == [i \in 1 .. input_frames |-> (called - 1) * input_frames + i - 1]
  <2>2. B[1] = (called - 1) * input_frames
    <3>1. 1 \in 1 .. input_frames
      BY CountsAreInts
    <3>2. B[1] = (called - 1) * input_frames + 1 - 1
      BY <3>1
    <3>3. (called - 1) * input_frames \in Int
      BY CountsAreInts
    <3> QED
      BY <3>2, <3>3
  <2> HIDE DEF B
  <2>3. queue = <<B>>
    BY <2>1 DEF B
  <2>4. Head(queue) = B /\ Tail(queue) = <<>>
    BY <2>3, OneElement
  <2> QED
    BY <1>3, <2>2, <2>4 DEF Stand
<1>11. ASSUME NEW i \in 1 .. outs
       PROVE  more[i] \in Nat /\ more[i] = PositionOf(Computed + i - 1)
  <2>1. i - 1 \in Nat
    BY <1>6
  <2>2. Stand \in Nat /\ Computed \in Nat /\ At(i - 1) \in Nat
        /\ Stand + At(i - 1) = PositionOf(Computed + (i - 1))
    BY <1>1, <1>3, <2>1, WalkIsStream
  <2>3. more[i] = Head(queue)[1] + offset + At(i - 1)
    OBVIOUS
  <2>4. Computed + (i - 1) = Computed + i - 1
    BY <1>6, <2>2
  <2>5. more[i] = Stand + At(i - 1)
    BY <1>10, <2>3
  <2> QED
    BY <2>2, <2>4, <2>5
<1>12. more \in Seq(Nat) /\ Len(more) = outs
  <2>1. more \in [1 .. outs -> Nat]
    BY <1>11
  <2> HIDE DEF more
  <2> QED
    BY <1>6, <2>1, FunctionIsSeq
<1> HIDE DEF more
<1>13. /\ resampler_workspace' \in Seq(Nat)
       /\ Len(resampler_workspace') = Len(resampler_workspace) + outs
       /\ \A i \in 1 .. Len(resampler_workspace) + outs :
            resampler_workspace'[i] = IF i <= Len(resampler_workspace) THEN resampler_workspace[i]
                                      ELSE more[i - Len(resampler_workspace)]
  <2>1. resampler_workspace \in Seq(Nat)
    BY DEF StreamInv, WorkspaceInStream
  <2> QED
    BY <1>1, <1>12, <2>1, ConcatProperties
<1>14. Written' = Written
  BY <1>2 DEF Written, parameters, request
<1>15. Ratio'
  BY <1>2, RatioStep DEF StreamInv
<1>16. Counts'
  BY <1>2, <1>14 DEF StreamInv, Counts, parameters, output, request, IsSeq
<1>17. OneBlock'
  <2>1. CASE left = 0
    <3>1. queue' = <<>> /\ offset' = 0 /\ done_queue' = 1
      BY <1>1, <1>3, <1>10, <2>1
    <3>2. 0 \in 0 .. input_frames' - 1
      BY <1>2, CountsAreInts DEF parameters
    <3> QED
      BY <3>1, <3>2 DEF OneBlock
  <2>2. CASE left # 0
    <3>1. queue' = queue /\ offset' = offset + used /\ done_queue' = done_queue
      BY <1>1, <2>2
    <3>2. o + h \in 0 .. b - 1
      BY <1>9, <2>2
    <3>3. offset' \in 0 .. input_frames' - 1
      BY <1>2, <1>9, <3>1, <3>2 DEF parameters
    <3> QED
      BY <1>2, <1>3, <3>1, <3>3 DEF StreamInv, OneBlock, parameters
  <2> QED
    BY <2>1, <2>2
<1>18. Stand' = Stand + used
  <2>1. PICK c \in Nat, s \in Int : c = called /\ s = (c - 1) * b /\ c * b = s + b
    <3>1. PICK c \in Nat : c = called
      BY CountsAreInts
    <3>2. (c - 1) * b \in Int /\ c * b = (c - 1) * b + b
      OBVIOUS
    <3> QED
      BY <3>1, <3>2
  <2>2. Stand = s + o
    BY <1>9, <1>10, <2>1
  <2>3. CASE left = 0
    <3>1. queue' = <<>>
      BY <1>1, <1>10, <2>3
    <3>2. Stand' = c * b
      BY <1>2, <1>9, <2>1, <3>1 DEF Stand, parameters
    <3>3. b = o + h
      BY <1>9, <2>3
    <3>4. s + b = (s + o) + h
      BY <3>3
    <3> QED
      BY <1>9, <2>1, <2>2, <3>2, <3>4
  <2>4. CASE left # 0
    <3>1. queue' = queue /\ offset' = o + h
      BY <1>1, <1>9, <2>4
    <3>2. Stand' = s + (o + h)
      BY <1>2, <1>3, <1>9, <2>1, <3>1 DEF Stand, parameters
    <3>3. s + (o + h) = (s + o) + h
      OBVIOUS
    <3> QED
      BY <1>9, <2>2, <3>2, <3>3
  <2> QED
    BY <2>3, <2>4
<1>19. PICK of \in Int, co \in Int, to \in Nat, W \in Nat, L \in Nat, n \in Nat :
         /\ of = output_frames /\ co = consumed_output_frames /\ to = total /\ W = Written
         /\ L = Len(resampler_workspace) /\ n = outs /\ co = of /\ L + n <= of
         /\ Computed = to + W + L /\ Computed' = to + W + L + n
  <2>1. PICK of \in Int, co \in Int, to \in Nat, W \in Nat, L \in Nat, n \in Nat :
          /\ of = output_frames /\ co = consumed_output_frames /\ to = total /\ W = Written
          /\ L = Len(resampler_workspace) /\ n = outs /\ co = of
    <3>1. PICK of \in Int, to \in Nat, W \in Nat : of = output_frames /\ to = total /\ W = Written
      BY CountsAreInts
    <3>2. PICK L \in Nat, n \in Nat : L = Len(resampler_workspace) /\ n = outs
      BY <1>6, LengthsAreNat
    <3> QED
      BY <1>4, <3>1, <3>2
  <2>2. n <= of - L
    BY <1>6, <2>1
  <2>3. Computed = to + W + of - co + L
    BY <2>1 DEF Computed
  <2>4. Len(resampler_workspace') = L + n
    BY <1>13, <2>1
  <2>5. Computed' = to + W + of - co + (L + n)
    BY <1>2, <1>14, <2>1, <2>4 DEF Computed, parameters, output, request
  <2>6. to + W + of - co + L = to + W + L /\ to + W + of - co + (L + n) = to + W + L + n
    BY <2>1
  <2>7. Computed = to + W + L /\ Computed' = to + W + L + n
    BY <2>3, <2>5, <2>6
  <2>8. L + n <= of
    BY <2>1, <2>2
  <2> QED
    BY <2>1, <2>7, <2>8
<1>20. InStep'
  <2>1. Stand \in Nat /\ Computed \in Nat
        /\ Walk(outs) + Stand * den_rate = (Computed + outs) * num_rate
    BY <1>1, <1>3, <1>6, WalkIsStream
  <2>2. PICK dn \in Nat, nm \in Nat : dn = den_rate /\ nm = num_rate
    BY CountsAreInts
  <2>3. PICK r \in 0 .. dn - 1 : r = Walk(outs) % den_rate
    BY <1>7, <2>2
  <2>4. PICK a \in Nat, w \in Nat : a = At(outs) /\ w = Walk(outs) /\ h <= a
    BY <1>7, <1>8, <1>9
  <2>5. PICK st \in Nat, C \in Nat : st = Stand /\ C = Computed
    BY <2>1
  <2>6. w = dn * a + r
    BY <1>7, <2>2, <2>3, <2>4
  <2>7. w + st * dn = (C + n) * nm
    BY <1>19, <2>1, <2>2, <2>4, <2>5
  <2>8. ((st + h) + (a - h)) * dn + r = (C + n) * nm
    <3>1. (st + h) + (a - h) = st + a
      OBVIOUS
    <3>2. (st + a) * dn = st * dn + dn * a
      OBVIOUS
    <3>3. st * dn \in Int /\ dn * a \in Int
      OBVIOUS
    <3> QED
      BY <2>6, <2>7, <3>1, <3>2, <3>3
  <2>9. last_sample' = a - h /\ samp_frac_num' = r /\ Stand' = st + h
    BY <1>1, <1>9, <1>18, <2>3, <2>4, <2>5
  <2>10. Computed' = C + n
    BY <1>19, <2>5
  <2>11. a - h \in Nat
    BY <2>4
  <2>12. den_rate' = dn /\ num_rate' = nm /\ input_sr' # output_sr'
    BY <1>2, <1>3, <2>2 DEF parameters
  <2> QED
    BY <2>8, <2>9, <2>10, <2>11, <2>12 DEF InStep
<1>21. WorkspaceInStream'
  <2>1. pc' = "resample" /\ total' = total /\ output_frames' = output_frames
    BY <1>1, <1>2 DEF parameters, request
  <2>2. Len(resampler_workspace') <= output_frames'
    BY <1>13, <1>19, <2>1
  <2>3. ASSUME NEW i \in 1 .. L + n
        PROVE  resampler_workspace'[i] = PositionOf(total + Written + i - 1)
    <3>1. CASE i <= L
      <4>1. i \in 1 .. L
        BY <3>1
      <4> QED
        BY <1>13, <1>19, <3>1, <4>1 DEF StreamInv, WorkspaceInStream
    <3>2. CASE ~ (i <= L)
      <4>1. PICK j \in 1 .. n : j = i - L
        BY <3>2
      <4>2. resampler_workspace'[i] = more[j]
        BY <1>13, <1>19, <3>2, <4>1
      <4>3. more[j] = PositionOf(to + W + L + j - 1)
        BY <1>11, <1>19
      <4>4. to + W + L + j - 1 = to + W + i - 1
        BY <4>1
      <4> QED
        BY <1>19, <4>2, <4>3, <4>4
    <3> QED
      BY <3>1, <3>2
  <2>4. Len(resampler_workspace') = L + n
    BY <1>13, <1>19
  <2> QED
    BY <1>2, <1>13, <1>14, <2>1, <2>2, <2>3, <2>4, PositionSame DEF WorkspaceInStream
<1>22. OutputInStream'
  BY <1>2, <1>14, ExpectedSame DEF StreamInv, OutputInStream, parameters, output, request
<1>23. BufferInStream'
  BY <1>2, ExpectedSame DEF StreamInv, BufferInStream, parameters, request
<1> QED
  BY <1>15, <1>16, <1>17, <1>20, <1>21, <1>22, <1>23 DEF StreamInv

-----------------------------------------------------------------------------
(* The theorems.                                                           *)

\* Every step preserves the invariant.
LEMMA StreamInvStep ==
  ASSUME StreamInv, [Next]_vars
  PROVE  StreamInv'
<1>1. ASSUME NEW f \in Requests, Write(f)  PROVE StreamInv'
  BY <1>1, WriteStep
<1>2. CASE Copy
  BY <1>2, CopyStep
<1>3. CASE Return
  BY <1>3, ReturnStep
<1>4. CASE RefillDirectly
  BY <1>4, RefillDirectlyStep
<1>5. CASE RefillByResampling
  BY <1>5, RefillByResamplingStep
<1>6. CASE ResamplerWrite
  BY <1>6, ResamplerWriteStep
<1>7. CASE Pull
  BY <1>7, PullStep
<1>8. CASE Refilled
  BY <1>8, RefilledStep
<1>9. CASE UNCHANGED vars
  <2>1. /\ UNCHANGED parameters /\ UNCHANGED output /\ UNCHANGED pc /\ UNCHANGED request
        /\ UNCHANGED resampler_workspace /\ UNCHANGED queues /\ UNCHANGED offset
        /\ UNCHANGED speex /\ UNCHANGED called
    BY <1>9 DEF vars
  <2>2. Written' = Written
    BY <2>1 DEF Written, parameters, request
  <2>3. Ratio'
    BY <2>1, RatioStep DEF StreamInv
  <2>4. Counts' /\ OneBlock'
    BY <2>1, <2>2
       DEF StreamInv, Counts, OneBlock, parameters, output, request, queues, IsSeq
  <2>5. InStep'
    BY <2>1, <2>2
       DEF StreamInv, InStep, Stand, Computed, parameters, output, request, queues, speex
  <2>6. WorkspaceInStream'
    BY <2>1, <2>2, PositionSame DEF StreamInv, WorkspaceInStream, parameters, request
  <2>7. OutputInStream'
    BY <2>1, <2>2, ExpectedSame DEF StreamInv, OutputInStream, parameters, output, request
  <2>8. BufferInStream'
    BY <2>1, ExpectedSame DEF StreamInv, BufferInStream, parameters, request
  <2> QED
    BY <2>3, <2>4, <2>5, <2>6, <2>7, <2>8 DEF StreamInv
<1> QED
  BY <1>1, <1>2, <1>3, <1>4, <1>5, <1>6, <1>7, <1>8, <1>9 DEF Next, Step

\* Everything that is on its way to the caller of write is the stream, and the
\* resampler stands where the stream goes on.
THEOREM Streaming == Spec => []StreamInv
<1>1. Init => StreamInv
  BY InitStreamInv
<1>2. StreamInv /\ [Next]_vars => StreamInv'
  BY StreamInvStep
<1> QED
  BY <1>1, <1>2, PTL DEF Spec

\* The types and bounds are part of it.
LEMMA StreamInvTypes ==
  ASSUME StreamInv
  PROVE  TypeOK
<1>1. Len(resampler_workspace) <= output_frames \/ pc = "thrown"
  <2>1. CASE pc = "resample"
    BY <2>1 DEF StreamInv, WorkspaceInStream
  <2>2. CASE pc # "resample" /\ pc # "thrown"
    <3>1. resampler_workspace = <<>> /\ output_frames > 0
      BY <2>2 DEF StreamInv, WorkspaceInStream, Counts
    <3>2. Len(resampler_workspace) = 0
      BY <3>1, EmptySeq
    <3>3. output_frames > 0 => 0 <= output_frames
      BY CountsAreInts
    <3> QED
      BY <3>1, <3>2, <3>3
  <2> QED
    BY <2>1, <2>2
<1>2. Len(queue) + done_queue <= 1
  <2>1. CASE queue = <<>>
    <3>1. Len(queue) = 0 /\ done_queue \in 0 .. 1
      BY <2>1, EmptySeq DEF StreamInv, OneBlock
    <3> QED
      BY <3>1
  <2>2. CASE queue # <<>>
    <3>1. /\ queue = << [i \in 1 .. input_frames |-> (called - 1) * input_frames + i - 1] >>
          /\ done_queue = 0
      BY <2>2 DEF StreamInv, OneBlock
    <3> DEFINE B == [i \in 1 .. input_frames |-> (called - 1) * input_frames + i - 1]
    <3>2. queue = <<B>>
      BY <3>1
    <3> HIDE DEF B
    <3>3. Len(queue) = 1
      BY <3>2
    <3> QED
      BY <3>1, <3>3
  <2> QED
    BY <2>1, <2>2
<1>3. /\ pc \in {"thrown", "idle", "write", "resample"}
      /\ pc # "thrown" => output_frames > 0
      /\ pc # "thrown" => consumed_output_frames \in 0 .. output_frames
      /\ Written <= frames
  BY DEF StreamInv, Counts
<1>4. /\ offset \in 0 .. input_frames - 1 /\ (queue = <<>> => offset = 0)
      /\ last_sample \in Nat /\ samp_frac_num \in 0 .. den_rate - 1
  BY DEF StreamInv, OneBlock, InStep
<1> QED
  BY <1>1, <1>2, <1>3, <1>4 DEF TypeOK

\* And what the buffer holds is the stream.
LEMMA StreamInvDrift ==
  ASSUME StreamInv
  PROVE  NoDrift
<1>1. ASSUME NEW f \in 0 .. Written - 1
      PROVE  SubSeq(buffer, f * output_channels + 1, (f + 1) * output_channels)
               = RemixedFrame(PositionOf(total + f))
  <2>1. PICK oc \in Nat \ {0}, W \in Nat : oc = output_channels /\ W = Written
    BY CountsAreInts
  <2>2. PICK a \in Int, b \in Int : a = f * oc + 1 /\ b = (f + 1) * oc /\ b - a + 1 = oc /\ a <= b
    <3>1. f \in Int
      BY <2>1
    <3>2. (f + 1) * oc = f * oc + oc /\ f * oc \in Int
      BY <3>1
    <3> QED
      BY <3>2
  <2> DEFINE S == {buffer[k] : k \in a .. b}
             s == SubSeq(buffer, a, b)
  <2>3. \A k \in a .. b : buffer[k] \in S
    OBVIOUS
  <2> HIDE DEF S
  <2>4. s \in Seq(S)
    BY <2>3, SubSeqProperties
  <2>5. Len(s) = IF a <= b THEN b - a + 1 ELSE 0
    BY <2>3, SubSeqProperties
  <2>6. \A j \in 1 .. b - a + 1 : s[j] = buffer[a + j - 1]
    BY <2>3, SubSeqProperties
  <2> HIDE DEF s
  <2>7. Len(s) = oc
    BY <2>2, <2>5
  <2>8. s = [j \in 1 .. oc |-> s[j]]
    BY <2>4, <2>7, LenProperties
  <2>9. ASSUME NEW j \in 1 .. oc
        PROVE  s[j] = RemixedFrame(PositionOf(total + f))[j]
    <3>1. PICK k \in Int : k = a + j - 1 /\ k - 1 = f * oc + (j - 1)
      <4>1. f * oc \in Int
        BY <2>1
      <4>2. a + j - 1 \in Int /\ (a + j - 1) - 1 = f * oc + (j - 1)
        BY <2>2, <4>1
      <4> QED
        BY <4>2
    <3>2. s[j] = buffer[k]
      BY <2>2, <2>6, <3>1
    <3>3. k \in 1 .. Len(buffer)
      <4>1. Len(buffer) = W * oc
        BY <2>1 DEF StreamInv, Counts
      <4>2. f \in Nat /\ f + 1 <= W
        BY <2>1
      <4>3. f * oc >= 0 /\ (f + 1) * oc <= W * oc /\ (f + 1) * oc = f * oc + oc
            /\ f * oc \in Int /\ W * oc \in Int
        BY <4>2
      <4> QED
        BY <3>1, <4>1, <4>3
    <3>4. buffer[k] = Expected(total, k)
      BY <3>3 DEF StreamInv, BufferInStream
    <3>5. FrameOf(k) = f /\ ChannelOf(k) = j
      <4>1. j - 1 \in 0 .. oc - 1 /\ f \in Int
        BY <2>1
      <4>2. (f * oc + (j - 1)) \div oc = f /\ (f * oc + (j - 1)) % oc = j - 1
        BY <4>1, DivModUnique
      <4> QED
        BY <2>1, <3>1, <4>2 DEF FrameOf, ChannelOf
    <3> QED
      BY <3>2, <3>4, <3>5 DEF Expected
  <2>10. RemixedFrame(PositionOf(total + f))
           = [j \in 1 .. oc |-> RemixedFrame(PositionOf(total + f))[j]]
    BY <2>1 DEF RemixedFrame
  <2>11. s = RemixedFrame(PositionOf(total + f))
    BY <2>8, <2>9, <2>10
  <2>12. SubSeq(buffer, f * output_channels + 1, (f + 1) * output_channels) = s
    BY <2>1, <2>2 DEF s
  <2> QED
    BY <2>11, <2>12
<1> QED
  BY <1>1, StreamInvTypes DEF NoDrift

\* What write has written is the stream: for any block size, rates, channels
\* and requests, no frame is lost, repeated, taken at the wrong moment or mixed
\* differently from the functions with a buffer per channel.
THEOREM StreamHasNoDrift == Spec => []NoDrift
<1>1. StreamInv => NoDrift
  BY StreamInvDrift
<1> QED
  BY <1>1, Streaming, PTL

\* The callback is called only for a frame that needs input it has not produced.
THEOREM CallbackIsNotEarly == Spec => NoLatency
<1>1. StreamInv /\ [Next]_vars
        => [called' # called => called * input_frames <= PositionOf(Computed)]_vars
  <2> SUFFICES ASSUME StreamInv, [Next]_vars, called' # called
               PROVE  called * input_frames <= PositionOf(Computed)
    OBVIOUS
  <2>1. RefillDirectly \/ Pull
    BY DEF Next, Step, Write, Copy, Return, RefillByResampling, ResamplerWrite, Refilled, vars
  <2>2. CASE RefillDirectly
    <3>1. input_sr = output_sr /\ called * input_frames = Computed
      BY <2>2 DEF RefillDirectly, StreamInv, InStep
    <3>2. PICK x \in Nat : x = Computed
      <4>1. called * input_frames \in Nat
        BY CountsAreInts
      <4> QED
        BY <3>1, <4>1
    <3>3. PositionOf(x) = x
      BY <3>1, PositionAtEqualRates DEF StreamInv
    <3> QED
      BY <3>1, <3>2, <3>3
  <2>3. CASE Pull
    <3>1. Stand = called * input_frames /\ input_sr # output_sr /\ pc = "resample"
      BY <2>3, PullIsNeeded
    <3>2. Stand \in Nat /\ Computed \in Nat /\ At(0) \in Nat /\ Stand + At(0) = PositionOf(Computed + 0)
      BY <3>1, WalkIsStream
    <3>3. Computed + 0 = Computed
      BY <3>2
    <3>4. PICK st \in Nat, a \in Nat : st = Stand /\ a = At(0)
      BY <3>2
    <3>5. PositionOf(Computed) = st + a
      BY <3>2, <3>3, <3>4
    <3>6. st <= st + a
      OBVIOUS
    <3> QED
      BY <3>1, <3>4, <3>5, <3>6
  <2> QED
    BY <2>1, <2>2, <2>3
<1> QED
  BY <1>1, Streaming, PTL DEF Spec, NoLatency

================================================================================
