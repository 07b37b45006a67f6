------------------------ MODULE SampleFormatConverter ------------------------
(***************************************************************************)
(* SampleFormatConverter (src/audio_io/format_conversion/): it pulls       *)
(* blocks of input_frames frames from a callback and hands out any number  *)
(* of frames at another sample rate. With it, the queue of                 *)
(* ResamplerImplementation (speex_resampler_cpp/src/resampler_class.cpp)   *)
(* and the counting that the Speex resampler does to walk along its input. *)
(*                                                                         *)
(* Up to the remixing, a frame is the position, in the frames the callback *)
(* has produced so far, of the input frame it is computed at: what the     *)
(* filter makes of the samples does not matter here, where in the input    *)
(* each output frame is taken does. All channels advance alike. From the   *)
(* remixing on, it is a sample for each of the output channels.            *)
(***************************************************************************)
EXTENDS Remix

CONSTANTS
  Blocks,    \* values of the constructor's inputFrames
  Rates,     \* values of its inputSr and outputSr
  Channels,  \* values of its inputChannels and outputChannels
  Requests,  \* numbers of frames asked of write
  XLen,      \* frames that Speex takes in one round (st->buffer_size)
  MaxInt,    \* the largest int; -MaxInt - 1 is the smallest
  MaxTotal   \* bound of the model: frames asked for in all

ASSUME ConverterAssumption ==
  /\ Blocks \subseteq Nat \ {0} /\ Rates \subseteq Nat \ {0}
  /\ Channels \subseteq Nat \ {0} /\ Requests \subseteq Nat
  /\ XLen \in Nat \ {0} /\ MaxInt \in Nat \ {0} /\ MaxTotal \in Nat

VARIABLES
  input_frames, input_sr, output_sr, input_channels, output_channels,
  num_rate, den_rate,           \* the ratio of the rates in lowest terms
  output_frames,                \* frames output_buffer has room for
  output_buffer, consumed_output_frames,
  pc,                           \* where write is
  frames, buffer,               \* frames asked for, and the samples written so far
  resampler_workspace,          \* the got frames of refillOutputBuffer
  queue, done_queue, offset,    \* the resampler's buffers; spare ones; the
                                \*   frames already taken from the first
  last_sample, samp_frac_num,   \* Speex: the next input frame and fraction
  called, total                 \* history: callbacks, frames of earlier writes

parameters == <<input_frames, input_sr, output_sr, input_channels, output_channels,
                num_rate, den_rate, output_frames>>
output     == <<output_buffer, consumed_output_frames>>
request    == <<frames, buffer, total>>
speex      == <<last_sample, samp_frac_num>>
queues     == <<queue, done_queue>>
vars == <<parameters, output, pc, request, resampler_workspace, queues, offset,
          speex, called>>

-----------------------------------------------------------------------------
(* The constructor.                                                        *)

\* int arithmetic wraps around, and division rounds towards zero.
AsInt(n)       == ((n + MaxInt + 1) % (2 * MaxInt + 2)) - MaxInt - 1
Quotient(n, d) == IF n >= 0 THEN n \div d ELSE -((-n) \div d)

\* Mutant: a length of zero is kept.
ResamplerLength_MayBeZero(n, inSr, outSr) == Quotient(AsInt(n * outSr), inSr)

\* The frames that one block becomes, and a whole block if there are none.
\* The product is computed as an int: the length may be any, even negative.
ResamplerLength(n, inSr, outSr) ==
  LET length == Quotient(AsInt(n * outSr), inSr)
  IN  IF length = 0 THEN n ELSE length

CommonFactor(a, b) ==
  CHOOSE f \in 1 .. a : /\ a % f = 0 /\ b % f = 0
                        /\ \A g \in f + 1 .. a : ~(a % g = 0 /\ b % g = 0)

\* A new Speex state stands at the first frame.
SpeexInit     == last_sample = 0 /\ samp_frac_num = 0
ResamplerInit == SpeexInit /\ queue = <<>> /\ done_queue = 0 /\ offset = 0

\* With a negative length the allocation throws and there is no converter.
Init ==
  /\ input_frames \in Blocks /\ input_sr \in Rates /\ output_sr \in Rates
  /\ input_channels \in Channels /\ output_channels \in Channels
  /\ num_rate = input_sr \div CommonFactor(input_sr, output_sr)
  /\ den_rate = output_sr \div CommonFactor(input_sr, output_sr)
  /\ output_frames = IF input_sr = output_sr THEN input_frames
                     ELSE ResamplerLength(input_frames, input_sr, output_sr)
  /\ pc = IF output_frames < 0 THEN "thrown" ELSE "idle"
  /\ output_buffer = [k \in 1 .. output_frames * output_channels |-> 0]
  /\ consumed_output_frames = output_frames
  /\ frames = 0 /\ buffer = <<>> /\ total = 0
  /\ ResamplerInit /\ resampler_workspace = <<>> /\ called = 0

-----------------------------------------------------------------------------
(* write.                                                                  *)

Write(f) ==
  /\ pc = "idle"
  /\ total + f <= MaxTotal
  /\ frames' = f /\ buffer' = <<>>
  /\ pc' = "write"
  /\ UNCHANGED <<parameters, output, total, resampler_workspace, queues, offset, speex, called>>

Written == Len(buffer) \div output_channels

WillWrite == Lesser(frames - Written, output_frames - consumed_output_frames)

Copy ==
  /\ pc = "write"
  /\ Written # frames /\ WillWrite > 0
  /\ buffer' = buffer \o SubSeq(output_buffer,
                                consumed_output_frames * output_channels + 1,
                                (consumed_output_frames + WillWrite) * output_channels)
  /\ consumed_output_frames' = consumed_output_frames + WillWrite
  /\ UNCHANGED <<parameters, output_buffer, pc, frames, total, resampler_workspace, queues, offset, speex, called>>

Return ==
  /\ pc = "write"
  /\ Written = frames
  /\ pc' = "idle"
  /\ total' = total + frames /\ frames' = 0 /\ buffer' = <<>>
  /\ UNCHANGED <<parameters, output, resampler_workspace, queues, offset, speex, called>>

-----------------------------------------------------------------------------
(* refillOutputBuffer.                                                     *)

\* The frames of the block that the callback produces next.
Block == [i \in 1 .. input_frames |-> called * input_frames + i - 1]

\* The sample of channel c, from 0, at position p: another one for each.
Sample(p, c) == 10 * p + c

\* The frames at these positions, interleaved as callback and resampler do.
Samples(positions) ==
  [k \in 1 .. Len(positions) * input_channels |->
     Sample(positions[(k - 1) \div input_channels + 1], (k - 1) % input_channels)]

\* Mutant: what was in the output buffer is not zeroed.
Remixed_Onto(positions) ==
  IF input_channels = output_channels
    THEN [k \in DOMAIN Samples(positions) |-> One * Samples(positions)[k]]
  ELSE remixAudioInterleaved(Len(positions), input_channels, Samples(positions),
                             output_channels, output_buffer, FALSE)

\* What is copied or remixed into the output buffer.
Remixed(positions) ==
  IF input_channels = output_channels
    THEN [k \in DOMAIN Samples(positions) |-> One * Samples(positions)[k]]
  ELSE remixAudioInterleaved(Len(positions), input_channels, Samples(positions),
                             output_channels, output_buffer, TRUE)

\* Same rates: the block goes to the output buffer, remixed or not.
RefillDirectly ==
  /\ pc = "write"
  /\ Written # frames /\ WillWrite <= 0
  /\ input_sr = output_sr
  /\ output_buffer' = Remixed(Block) /\ called' = called + 1
  /\ consumed_output_frames' = 0
  /\ UNCHANGED <<parameters, pc, request, resampler_workspace, queues, offset, speex>>

RefillByResampling ==
  /\ pc = "write"
  /\ Written # frames /\ WillWrite <= 0
  /\ input_sr # output_sr
  /\ resampler_workspace' = <<>>
  /\ pc' = "resample"
  /\ UNCHANGED <<parameters, output, request, queues, offset, speex, called>>

\* Mutant: write goes on to pull after one round of Speex.
ResamplerReturns_Early ==
  \/ Len(resampler_workspace) > 0
  \/ queue = <<>>

\* The resampler stops with room left only when it has no input left.
ResamplerReturns ==
  \/ Len(resampler_workspace) >= output_frames
  \/ queue = <<>>

\* Where Speex is after k more output frames, in units of 1/den_rate of an
\* input frame: a step of int_advance, with frac_advance carried over.
Walk(k) == last_sample * den_rate + samp_frac_num + k * num_rate

At(k) == Walk(k) \div den_rate

\* The output frames computed from a round of ilen frames with room for olen.
OutSamples(ilen, olen) ==
  CHOOSE k \in 0 .. olen :
    /\ k = olen \/ At(k) >= ilen
    /\ \A j \in 0 .. k - 1 : At(j) < ilen

\* Mutant: last_sample is not made relative to the frames that are left.
LastSample_NotMoved(last, used) == last

LastSample(last, used) == last - used

\* One round of the loops in the resampler's write and in Speex: up to XLen
\* frames of the first buffer, which is spare once it is used up.
ResamplerWrite ==
  /\ pc = "resample"
  /\ ~ResamplerReturns
  /\ LET ilen == Lesser(XLen, input_frames - offset)
         outs == OutSamples(ilen, output_frames - Len(resampler_workspace))
         used == Lesser(At(outs), ilen)
         left == input_frames - offset - used
     IN  /\ resampler_workspace' = resampler_workspace
                 \o [i \in 1 .. outs |-> Head(queue)[1] + offset + At(i - 1)]
         /\ samp_frac_num' = Walk(outs) % den_rate
         /\ last_sample' = LastSample(At(outs), used)
         /\ offset' = IF left = 0 THEN 0 ELSE offset + used
         /\ queue' = IF left = 0 THEN Tail(queue) ELSE queue
         /\ done_queue' = IF left = 0 THEN done_queue + 1 ELSE done_queue
  /\ UNCHANGED <<parameters, output, pc, request, called>>

\* Mutant: read always allocates.
Spare_Ignored == done_queue

\* The spare buffers left when read has taken one, if there is one.
Spare == IF done_queue = 0 THEN 0 ELSE done_queue - 1

\* Too few frames: the callback, and the resampler's read, which keeps a copy.
Pull ==
  /\ pc = "resample"
  /\ ResamplerReturns /\ Len(resampler_workspace) < output_frames
  /\ queue' = Append(queue, Block) /\ called' = called + 1
  /\ done_queue' = Spare
  /\ UNCHANGED <<parameters, output, pc, request, resampler_workspace, offset, speex>>

Refilled ==
  /\ pc = "resample"
  /\ Len(resampler_workspace) >= output_frames
  /\ output_buffer' = Remixed(resampler_workspace) /\ consumed_output_frames' = 0
  /\ resampler_workspace' = <<>>
  /\ pc' = "write"
  /\ UNCHANGED <<parameters, request, queues, offset, speex, called>>

Step == \/ Copy \/ Return \/ RefillDirectly \/ RefillByResampling
        \/ ResamplerWrite \/ Pull \/ Refilled

\* Nothing happens between calls, and no call follows a failed constructor.
Next == (\E f \in Requests : Write(f)) \/ Step

Spec     == Init /\ [][Next]_vars
FairSpec == Spec /\ WF_vars(Step)

-----------------------------------------------------------------------------
(* Properties.                                                             *)

\* Types and index bounds. A converter that could be constructed has room for
\* at least one frame, and the resampler never keeps more than one buffer of
\* input, in use or spare (read allocates only when there is none).
TypeOK ==
  /\ pc \in {"thrown", "idle", "write", "resample"}
  /\ pc # "thrown" => output_frames > 0
  /\ pc # "thrown" => consumed_output_frames \in 0 .. output_frames
  /\ Written <= frames
  /\ Len(resampler_workspace) <= output_frames \/ pc = "thrown"
  /\ Len(queue) + done_queue <= 1
  /\ offset \in 0 .. input_frames - 1 /\ (queue = <<>> => offset = 0)
  /\ last_sample \in Nat /\ samp_frac_num \in 0 .. den_rate - 1

\* The input frame that output frame n belongs to.
PositionOf(n) == (n * input_sr) \div output_sr

\* What remixing in one buffer per channel makes of the frame at a position.
RemixedFrame(p) ==
  LET inputs  == [c \in 1 .. input_channels |-> <<Sample(p, c - 1)>>]
      outputs == remixAudioUninterleaved(1, input_channels, inputs, output_channels, <<>>, TRUE)
  IN  [j \in 1 .. output_channels |-> outputs[j][1]]

\* No drift: through every block boundary, partial copy and carried fraction,
\* output frame n of the stream is the one at input position n * inputSr /
\* outputSr, so no frame is lost, repeated or taken at the wrong moment,
\* however the calls of write are cut (write and refillOutputBuffer, with
\* ResamplerImplementation::write and the Speex loops). Its channels are those
\* that remixAudioUninterleaved gives it, which has loops and indices of its
\* own and, for equal channel counts, copies the frame.
NoDrift ==
  /\ TypeOK
  /\ \A f \in 0 .. Written - 1 :
       SubSeq(buffer, f * output_channels + 1, (f + 1) * output_channels)
         = RemixedFrame(PositionOf(total + f))

\* The frames computed so far, wherever they are: in earlier calls, in this
\* one, in the output buffer or in the workspace.
Computed == total + Written + output_frames - consumed_output_frames
              + Len(resampler_workspace)

\* No latency: the callback is called only when the next frame cannot be
\* computed from what it has produced already ("We read first so that we can
\* ensure that we're not about to build up latency", line 68).
NoLatency ==
  [][called' # called => called * input_frames <= PositionOf(Computed)]_vars

\* A call of write returns: each refill makes progress.
WriteReturns == pc = "write" ~> pc = "idle"

=============================================================================
