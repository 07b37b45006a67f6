-------------------------------- MODULE Remix --------------------------------
(***************************************************************************)
(* Remixing of channels: the public functions of remix.cpp and the tables  *)
(* of mixing_matrices.cpp (src/audio_io/format_conversion/).               *)
(*                                                                         *)
(* Samples are integers.  Weights are in units of 1/100000, so that every  *)
(* table entry is one, and a remixed sample is in that unit as well.       *)
(***************************************************************************)
EXTENDS Integers, Sequences, FiniteSetsExt

One == 100000
Half == One \div 2
Quarter == One \div 4
Root == 70710      \* 0.7071
RootShort == 70700 \* 0.707, in mixing_matrix_6_1

-----------------------------------------------------------------------------
(* The matrices: a row per output channel with a weight per input channel. *)
(* Channels are fl, fr, bl, br of 4; fl, fr, fc, lfe, bl, br of 6; and the *)
(* same with sl, sr behind them of 8.                                      *)

\* A row of n channels in which those of cs have the weight w.
Row(n, cs, w) == [c \in 1 .. n |-> IF c \in cs THEN w ELSE 0]
Silence(n)    == Row(n, {}, 0)
Only(n, c)    == Row(n, {c}, One)

\* Two rows at once.
Plus(r, s) == [c \in DOMAIN r |-> r[c] + s[c]]

mixing_matrix_1_2 == << <<One>>, <<One>> >>
mixing_matrix_1_4 == << <<One>>, <<One>>, <<0>>, <<0>> >>
mixing_matrix_1_6 == [r \in 1 .. 6 |-> <<IF r = 3 THEN One ELSE 0>>]
mixing_matrix_1_8 == [r \in 1 .. 8 |-> <<IF r = 3 THEN One ELSE 0>>]

\* Stereo goes to the front.
Stereo(n) == [r \in 1 .. n |-> IF r <= 2 THEN Only(2, r) ELSE Silence(2)]

mixing_matrix_2_1 == << <<Half, Half>> >>
mixing_matrix_2_4 == Stereo(4)
mixing_matrix_2_6 == Stereo(6)
mixing_matrix_2_8 == Stereo(8)

mixing_matrix_4_1 == <<Row(4, 1 .. 4, Quarter)>>
mixing_matrix_4_2 == <<Row(4, {1, 3}, Half), Row(4, {2, 4}, Half)>>
mixing_matrix_4_6 ==
  <<Only(4, 1), Only(4, 2), Silence(4), Silence(4), Only(4, 3), Only(4, 4)>>
mixing_matrix_4_8 ==
  <<Only(4, 1), Only(4, 2), Silence(4), Silence(4),
    Row(4, {3}, Root), Row(4, {4}, Root), Row(4, {3}, Root), Row(4, {4}, Root)>>

mixing_matrix_6_1 == << <<RootShort, RootShort, One, 0, Half, Half>> >>
mixing_matrix_6_2 ==
  <<Plus(Only(6, 1), Row(6, {3, 5}, Root)), Plus(Only(6, 2), Row(6, {3, 6}, Root))>>
mixing_matrix_6_4 ==
  <<Plus(Only(6, 1), Row(6, {3}, Root)), Plus(Only(6, 2), Row(6, {3}, Root)),
    Only(6, 5), Only(6, 6)>>
mixing_matrix_6_8 ==
  <<Only(6, 1), Only(6, 2), Only(6, 3), Only(6, 4),
    Row(6, {5}, Half), Row(6, {6}, Half), Row(6, {5}, Half), Row(6, {6}, Half)>>

mixing_matrix_8_1 ==
  <<Plus(Only(8, 3), Plus(Row(8, {1, 2}, Root), Row(8, 5 .. 8, Quarter)))>>
mixing_matrix_8_2 ==
  <<Plus(Only(8, 1), Plus(Row(8, {3}, Root), Row(8, {5, 7}, Root \div 2))),
    Plus(Only(8, 2), Plus(Row(8, {3}, Root), Row(8, {6, 8}, Root \div 2)))>>
mixing_matrix_8_4 ==
  <<Plus(Only(8, 1), Row(8, {3}, Root)), Plus(Only(8, 2), Row(8, {3}, Root)),
    Row(8, {5, 7}, Half), Row(8, {6, 8}, Half)>>
mixing_matrix_8_6 ==
  <<Only(8, 1), Only(8, 2), Only(8, 3), Only(8, 4),
    Row(8, {5, 6}, Half), Row(8, {7, 8}, Half)>>

\* The matrix from m to n channels.
Matrix(m, n) ==
  CASE m = 1 /\ n = 2 -> mixing_matrix_1_2
    [] m = 1 /\ n = 4 -> mixing_matrix_1_4
    [] m = 1 /\ n = 6 -> mixing_matrix_1_6
    [] m = 1 /\ n = 8 -> mixing_matrix_1_8
    [] m = 2 /\ n = 1 -> mixing_matrix_2_1
    [] m = 2 /\ n = 4 -> mixing_matrix_2_4
    [] m = 2 /\ n = 6 -> mixing_matrix_2_6
    [] m = 2 /\ n = 8 -> mixing_matrix_2_8
    [] m = 4 /\ n = 1 -> mixing_matrix_4_1
    [] m = 4 /\ n = 2 -> mixing_matrix_4_2
    [] m = 4 /\ n = 6 -> mixing_matrix_4_6
    [] m = 4 /\ n = 8 -> mixing_matrix_4_8
    [] m = 6 /\ n = 1 -> mixing_matrix_6_1
    [] m = 6 /\ n = 2 -> mixing_matrix_6_2
    [] m = 6 /\ n = 4 -> mixing_matrix_6_4
    [] m = 6 /\ n = 8 -> mixing_matrix_6_8
    [] m = 8 /\ n = 1 -> mixing_matrix_8_1
    [] m = 8 /\ n = 2 -> mixing_matrix_8_2
    [] m = 8 /\ n = 4 -> mixing_matrix_8_4
    [] m = 8 /\ n = 6 -> mixing_matrix_8_6

HasMatrix(m, n) == {m, n} \subseteq {1, 2, 4, 6, 8} /\ m # n

-----------------------------------------------------------------------------
(* The loops over the frames, as what one output sample gains.  i is the   *)
(* frame, j the output channel, both from 0 in an interleaved buffer.      *)

Lesser(a, b) == IF a <= b THEN a ELSE b

\* The product of a row of a matrix with a frame.
Product(row, frame) ==
  MapThenSumSet(LAMBDA c : row[c] * frame[c], {c \in DOMAIN row : row[c] # 0})

Frame(input, m, i) == SubSeq(input, i * m + 1, i * m + m)

applyMixingMatrixInterleaved(input, m, n, i, j) ==
  Product(Matrix(m, n)[j + 1], Frame(input, m, i))

upmixMonoInterleaved(input, i) == One * input[i + 1]

\* Mutant: the channels that only the output has are mixed too.
mixUnrecognizedInterleaved_AllOutputs(input, m, n, i, j) ==
  One * input[Lesser(i * m + j + 1, Len(input))]

mixUnrecognizedInterleaved(input, m, n, i, j) ==
  IF j < Lesser(m, n) THEN One * input[i * m + j + 1] ELSE 0

remixAudioInterleaved(frames, m, input, n, output, zeroFirst) ==
  [k \in 1 .. frames * n |->
     LET i == (k - 1) \div n
         j == (k - 1) % n
     IN  (IF zeroFirst THEN 0 ELSE output[k])
         + IF HasMatrix(m, n) THEN applyMixingMatrixInterleaved(input, m, n, i, j)
           ELSE IF m = 1 THEN upmixMonoInterleaved(input, i)
           ELSE mixUnrecognizedInterleaved(input, m, n, i, j)]

\* The same for a buffer per channel.
applyMixingMatrixUninterleaved(inputs, m, n, i, j) ==
  Product(Matrix(m, n)[j], [c \in 1 .. m |-> inputs[c][i]])

upmixMonoUninterleaved(input, i) == One * input[i]

mixUnrecognizedUninterleaved(inputs, m, n, i, j) ==
  IF j <= Lesser(m, n) THEN One * inputs[j][i] ELSE 0

remixAudioUninterleaved(frames, m, inputs, n, outputs, zeroFirst) ==
  [j \in 1 .. n |-> [i \in 1 .. frames |->
     (IF zeroFirst THEN 0 ELSE outputs[j][i])
     + IF HasMatrix(m, n) THEN applyMixingMatrixUninterleaved(inputs, m, n, i, j)
       ELSE IF m = 1 THEN upmixMonoUninterleaved(inputs[1], i)
       ELSE mixUnrecognizedUninterleaved(inputs, m, n, i, j)]]

=============================================================================
