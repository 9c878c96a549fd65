--------------------------- MODULE MessageProtocol ---------------------------
(***************************************************************************)
(* What an Anthropic client may be sent: one message_start, content blocks *)
(* numbered from 0 of which at most one is open and only the open one gets *)
(* deltas of its own kind, then message_delta and message_stop, or an      *)
(* error event, after which nothing comes.                                 *)
(***************************************************************************)
EXTENDS Integers, Sequences

VARIABLE out   \* the frames sent so far

\* What fs, a sequence of frames, has come to.
FramesOf(fs, kind) == {i \in DOMAIN fs : fs[i].frame = kind}
Sent(fs, kind) == FramesOf(fs, kind) # {}
Started(fs) == {fs[i].index : i \in FramesOf(fs, "content_block_start")}
Stopped(fs) == {fs[i].index : i \in FramesOf(fs, "content_block_stop")}
IsOpen(fs, n) == n \in Started(fs) \ Stopped(fs)
OpenKind(fs, n, block) ==
    IsOpen(fs, n) /\ \E i \in FramesOf(fs, "content_block_start") :
                            fs[i].index = n /\ fs[i].block = block
InBody(fs) == Sent(fs, "message_start") /\ ~Sent(fs, "message_delta") /\ ~Sent(fs, "error")

\* What may be sent after fs.
May(fs, f) ==
    \/ f.frame = "message_start" /\ fs = <<>>
    \/ f.frame = "content_block_start"
       /\ InBody(fs) /\ Started(fs) = Stopped(fs) /\ Started(fs) = 0..(f.index - 1)
    \/ f.frame = "content_block_delta" /\ InBody(fs) /\ OpenKind(fs, f.index, f.block)
    \/ f.frame = "signature_delta" /\ InBody(fs) /\ OpenKind(fs, f.index, "thinking")
    \/ f.frame = "content_block_stop" /\ InBody(fs) /\ IsOpen(fs, f.index)
    \/ f.frame \in {"message_delta", "error"} /\ InBody(fs) /\ Started(fs) = Stopped(fs)
    \/ f.frame = "message_stop" /\ Sent(fs, "message_delta") /\ ~Sent(fs, "message_stop")

Init == out = <<>>

\* One more frame, allowed by what was sent before it.
Next == /\ Len(out') = Len(out) + 1
        /\ SubSeq(out', 1, Len(out)) = out
        /\ May(out, out'[Len(out) + 1])

Spec == Init /\ [][Next]_out
=============================================================================
