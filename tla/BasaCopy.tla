------------------------------ MODULE BasaCopy -------------------------------
(***************************************************************************)
(* A video channel that copies (basa_video.c with zynq_video_zero_copy     *)
(* off): the engine of the FPGA fills a ring of pages that the channel has *)
(* kept since it was made, and the tasklet copies each frame to a buffer   *)
(* of the process, or leaves it, or drops it, when there is none.          *)
(*                                                                         *)
(* Memory is modelled by the byte, so that a frame that ends within a page *)
(* or runs over the end of the ring is seen.  rlock is held while          *)
(* rpc # "idle"; what is done under qlock is one step.                     *)
(***************************************************************************)
EXTENDS Integers, Sequences, FiniteSets

CONSTANTS
    Buffers,        \* buffers of the process
    NoBuffer,       \* NULL
    MinBuffers,     \* zynq_video_buf_num
    PageSize,       \* PAGE_SIZE and zchan_rx_bufsz
    Pages,          \* pages of the ring
    SizeImage,      \* format.sizeimage
    MaxFrames,      \* bound on the frames of a behaviour
    MaxOps          \* bound on starts, stops and resets

RxSize == PageSize * Pages          \* zchan_rx_size
Align(off) == ((off + PageSize - 1) \div PageSize) * PageSize
Wrap(off) == IF off >= RxSize THEN off - RxSize ELSE off

VARIABLES
    dma,            \* the bytes of the ring: which frame and which byte of it
    rx,             \* zchan_rx_head, ZYNQ_CH_RX_TAIL, frames so far
    stream,         \* ZVIDEO_STATE_STREAMING, and the calls to start, stop and reset
    vbuf,           \* where each buffer is, its bytes, and the frames delivered so far
    bufs,           \* buf_list
    rpc, rxp,       \* zvideo_rx_proc_copy: step; rx_off, rx_tail, buf, and frames dropped
    good            \* whether the metadata of each frame is in order

vars == <<dma, rx, stream, vbuf, bufs, rpc, rxp, good>>

Nothing == <<0, 0>>     \* a byte of no frame

Init ==
    /\ dma = [i \in 0..(RxSize - 1) |-> Nothing]
    /\ rx = [head |-> 0, tail |-> 0, n |-> 0]
    /\ stream = [on |-> FALSE, ops |-> 0]
    /\ vbuf = [at |-> [b \in Buffers |-> "user"], mem |-> [b \in Buffers |-> <<>>], out |-> <<>>]
    /\ bufs = <<>>
    /\ rpc = "idle"
    /\ rxp = [off |-> 0, tail |-> 0, buf |-> NoBuffer, dropped |-> {}]
    /\ good = [f \in 1..MaxFrames |-> TRUE]

FREE_SIZE(head, tail) == IF head > tail THEN head - tail ELSE RxSize + head - tail
USED_SIZE(head, tail) == IF tail >= head THEN tail - head ELSE RxSize + tail - head

-----------------------------------------------------------------------------
(* The engine: it runs whether there is a stream or not.  The next frame starts *)
(* with a page; the ring is never filled to the last byte.  The tail register   *)
(* moves by whole frames, which the assertion after the copy loop relies on.    *)

HwFrame ==
    /\ rx.n < MaxFrames
    /\ FREE_SIZE(rx.head, rx.tail) > Align(SizeImage)
    /\ dma' = [i \in 0..(RxSize - 1) |->
                 LET k == USED_SIZE(rx.tail, i)
                 IN IF k < SizeImage THEN <<rx.n + 1, k>> ELSE dma[i]]
    /\ rx' = [rx EXCEPT !.tail = Wrap(@ + Align(SizeImage)), !.n = @ + 1]
    /\ \E ok \in BOOLEAN : good' = [good EXCEPT ![rx.n + 1] = ok]
    /\ UNCHANGED <<stream, vbuf, bufs, rpc, rxp>>

-----------------------------------------------------------------------------
(* The process. *)

\* zvideo_buffer_queue.
zvideo_buffer_queue(b) ==
    /\ vbuf.at[b] = "user"
    /\ vbuf' = [vbuf EXCEPT !.at[b] = "list"]
    /\ bufs' = Append(bufs, b)
    /\ UNCHANGED <<dma, rx, stream, rpc, rxp, good>>

\* zchan_rx_start.
RxStart == rx' = [rx EXCEPT !.head = 0, !.tail = 0]

\* zvideo_start_streaming, and zvideo_reset of a stream: the ring starts anew.
Start(on) ==
    /\ stream.on = on
    /\ stream.ops < MaxOps
    /\ on \/ Len(bufs) >= MinBuffers
    /\ rpc = "idle"
    /\ RxStart
    /\ stream' = [on |-> TRUE, ops |-> stream.ops + 1]
    /\ UNCHANGED <<dma, vbuf, bufs, rpc, rxp, good>>

zvideo_start_streaming == Start(FALSE)
zvideo_reset == Start(TRUE)

\* zvideo_stop_streaming: the engine goes on, the buffers in the list go back.
zvideo_stop_streaming ==
    /\ stream.on
    /\ stream.ops < MaxOps
    /\ rpc = "idle"
    /\ stream' = [on |-> FALSE, ops |-> stream.ops + 1]
    /\ vbuf' = [vbuf EXCEPT !.at = [b \in Buffers |-> IF @[b] = "list" THEN "user" ELSE @[b]]]
    /\ bufs' = <<>>
    /\ UNCHANGED <<dma, rx, rpc, rxp, good>>

\* VIDIOC_DQBUF.
Dqbuf(b) ==
    /\ vbuf.at[b] = "done"
    /\ vbuf' = [vbuf EXCEPT !.at[b] = "user"]
    /\ UNCHANGED <<dma, rx, stream, bufs, rpc, rxp, good>>

-----------------------------------------------------------------------------
(* The tasklet: zvideo_rx_proc_copy. *)

RxBegin ==
    /\ rpc = "idle"
    /\ rx.head # rx.tail
    /\ rpc' = "take"
    /\ rxp' = [rxp EXCEPT !.off = rx.head, !.tail = rx.tail]
    /\ UNCHANGED <<dma, rx, stream, vbuf, bufs, good>>

\* Take a buffer of a stream, if the list has one.
RxTake ==
    /\ rpc = "take"
    /\ stream.on /\ bufs # <<>>
    /\ rxp' = [rxp EXCEPT !.buf = Head(bufs)]
    /\ vbuf' = [vbuf EXCEPT !.at[Head(bufs)] = "rx"]
    /\ bufs' = Tail(bufs)
    /\ rpc' = "copy"
    /\ UNCHANGED <<dma, rx, stream, good>>

\* No buffer, but room for one more frame: leave the data for the next interrupt.
RxLeave ==
    /\ rpc = "take"
    /\ ~(stream.on /\ bufs # <<>>)
    /\ FREE_SIZE(rxp.off, rxp.tail) >= SizeImage
    /\ rpc' = "idle"
    /\ UNCHANGED <<dma, rx, stream, vbuf, bufs, rxp, good>>

\* The frame at the head.
FrameAt(off) == dma[off][1]

\* Mutant: the head is not moved to the next page.
NextFrame_Packed(off) == Wrap(off)

\* The beginning of the next frame, on a page.
NextFrame(off) == Wrap(Align(off))

\* The error field at the end of a frame that was handled is made invalid.
zvideo_reset_meta_data(off) ==
    dma' = [dma EXCEPT ![Wrap(off + SizeImage - 1)] = Nothing]

\* Advance to off and write the head register.
Advance(off) ==
    /\ zvideo_reset_meta_data(rx.head)
    /\ rx' = [rx EXCEPT !.head = NextFrame(off)]
    /\ rpc' = IF NextFrame(off) = rxp.tail THEN "idle" ELSE "take"

\* No buffer and no room: discard the frame.
RxDiscard ==
    /\ rpc = "take"
    /\ ~(stream.on /\ bufs # <<>>)
    /\ FREE_SIZE(rxp.off, rxp.tail) < SizeImage
    /\ Advance(rxp.off + SizeImage)
    /\ rxp' = [rxp EXCEPT !.off = NextFrame(rxp.off + SizeImage),
                          !.dropped = @ \cup {FrameAt(rxp.off)}]
    /\ UNCHANGED <<stream, vbuf, bufs, good>>

\* The copy loop, piece by piece to the end of a page, of the data, of the buffer: the
\* bytes of the ring from off on.
Copied(off, tail) ==
    LET used == USED_SIZE(off, tail)
        len == IF used < SizeImage THEN used ELSE SizeImage
    IN [k \in 1..len |-> dma[Wrap(off + k - 1)]]

\* zvideo_check_meta_data: a bad frame's buffer goes back to the list.
RxCopy ==
    /\ rpc = "copy"
    /\ LET b == rxp.buf
           mem == Copied(rxp.off, rxp.tail)
           ok == FrameAt(rxp.off) # 0 /\ good[FrameAt(rxp.off)]
           off == Wrap(rxp.off + Len(mem))
       IN /\ Advance(off)
          /\ rxp' = [rxp EXCEPT !.off = NextFrame(off), !.buf = NoBuffer]
          /\ vbuf' = [at |-> [vbuf.at EXCEPT ![b] = IF ok THEN "done" ELSE "list"],
                      mem |-> [vbuf.mem EXCEPT ![b] = mem],
                      out |-> IF ok THEN Append(vbuf.out, FrameAt(rxp.off)) ELSE vbuf.out]
          /\ bufs' = IF ok THEN bufs ELSE Append(bufs, b)
    /\ UNCHANGED <<stream, good>>

-----------------------------------------------------------------------------

Next ==
    \/ HwFrame
    \/ \E b \in Buffers : zvideo_buffer_queue(b) \/ Dqbuf(b)
    \/ zvideo_start_streaming \/ zvideo_reset \/ zvideo_stop_streaming
    \/ RxBegin \/ RxTake \/ RxLeave \/ RxDiscard \/ RxCopy

Spec == Init /\ [][Next]_vars

-----------------------------------------------------------------------------
(* Properties. *)

TypeOK ==
    /\ rx.head \in 0..(RxSize - 1) /\ rx.tail \in 0..(RxSize - 1) /\ rx.n \in 0..MaxFrames
    /\ rpc \in {"idle", "take", "copy"}
    /\ rxp.buf \in Buffers \cup {NoBuffer}

\* A buffer that the process gets, or that it got before, holds one frame from its
\* first to its last byte, wherever in the ring it lay and whatever the engine wrote
\* while it was copied.
CopiedWhole ==
    \A b \in Buffers :
        vbuf.at[b] = "done" =>
            /\ Len(vbuf.mem[b]) = SizeImage
            /\ \A k \in 1..SizeImage : vbuf.mem[b][k] = <<vbuf.mem[b][1][1], k - 1>>

\* Frames reach the process in the order the engine wrote them, each once, and none that
\* was counted as dropped; and a buffer is in one place.
InOrder ==
    /\ \A i, j \in 1..Len(vbuf.out) : i < j => vbuf.out[i] < vbuf.out[j]
    /\ \A i \in 1..Len(vbuf.out) : vbuf.out[i] \notin rxp.dropped
    /\ Len(bufs) = Cardinality({b \in Buffers : vbuf.at[b] = "list"})

CopySafe == TypeOK /\ CopiedWhole /\ InOrder
=============================================================================
